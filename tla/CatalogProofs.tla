---------------------------- MODULE CatalogProofs ----------------------------
(***************************************************************************)
(* Proofs about Catalog, for any number of requests and products.          *)
(***************************************************************************)
EXTENDS Catalog, TLAPS

----------------------------------------------------------------------------
(***************************************************************************)
(* Facts about the operators                                               *)
(***************************************************************************)

\* A request is about a known product; all but a delete carry a price and a stock.
LEMMA BodyType ==
  ASSUME TypeOK, NEW o \in Ops
  PROVE  /\ Item(o) \in Products
         /\ Kind(o) \in {"create", "update", "delete"}
         /\ Kind(o) # "delete" => body[o].price \in Prices /\ body[o].avail \in Int
<1>1. body[o] \in Body
  BY DEF TypeOK
<1>2. CASE body[o] \in [kind : {"create", "update"}, product : Products,
                        price : Prices, avail : Stocks]
  BY <1>2, StocksAssumption DEF Item, Kind
<1>3. CASE body[o] \in [kind : {"delete"}, product : Products]
  BY <1>3 DEF Item, Kind
<1> QED BY <1>1, <1>2, <1>3 DEF Body

\* The row each service writes is a row of its table, and it is not absent.
LEMMA RowsType ==
  ASSUME TypeOK, NEW o \in Ops, NEW row \in StockRow, NEW copy \in CatalogRow
  PROVE  /\ StockAfter(o, row) \in StockRow
         /\ CatalogAfter(o, copy) \in CatalogRow
         /\ StockAfter(o, row).status # "none"
         /\ CatalogAfter(o, copy).status # "none"
<1>1. CASE Kind(o) = "delete"
  <2>1. StockAfter(o, row) = [row EXCEPT !.status = "deleted"]
    BY <1>1 DEF StockAfter
  <2>2. CatalogAfter(o, copy) = [copy EXCEPT !.status = "deleted"]
    BY <1>1 DEF CatalogAfter
  <2> QED BY <2>1, <2>2 DEF StockRow, CatalogRow, RowStatus
<1>2. CASE Kind(o) # "delete"
  <2>1. body[o].price \in Prices /\ body[o].avail \in Int
    BY <1>2, BodyType
  <2>2. ToInt32(body[o].price) \in Prices
    BY <2>1, PricesAssumption
  <2>3. CatalogAfter(o, copy) = [status |-> "live", price |-> ToInt32(body[o].price)]
    BY <1>2 DEF CatalogAfter
  <2>4. CASE Kind(o) = "create"
    <3>1. StockAfter(o, row) = [status |-> "live", price |-> body[o].price,
                                avail |-> body[o].avail, oos |-> FALSE]
      BY <2>4 DEF StockAfter
    <3> QED BY <2>1, <2>2, <2>3, <3>1 DEF StockRow, CatalogRow, RowStatus
  <2>5. CASE Kind(o) = "update"
    <3>1. StockAfter(o, row) =
            [status |-> "live", price |-> body[o].price,
             avail |-> body[o].avail, oos |-> body[o].avail <= 0]
      BY <2>5 DEF StockAfter
    <3>2. (body[o].avail <= 0) \in BOOLEAN
      OBVIOUS
    <3> QED BY <2>1, <2>2, <2>3, <3>1, <3>2 DEF StockRow, CatalogRow, RowStatus
  <2> QED BY <1>2, <2>4, <2>5, BodyType
<1> QED BY <1>1, <1>2

\* What the client is told of an error.
LEMMA AnswerType ==
  /\ \A http \in Int : AnswerTo(http) \in Failures
  /\ AnswerTo(500) = "server_error"
BY DEF AnswerTo, Failures

----------------------------------------------------------------------------
(***************************************************************************)
(* Types                                                                   *)
(***************************************************************************)
LEMMA TypeStep == TypeOK /\ [Next]_vars => TypeOK'
<1> SUFFICES ASSUME TypeOK, [Next]_vars PROVE TypeOK'
  OBVIOUS
<1> USE DEF TypeOK, StoresTypeOK, Running, Serving, vars, storeVars, admVars, rpcVars
<1>1. ASSUME NEW o \in Ops, OpStep(o) PROVE TypeOK'
  <2>1. CASE Find(o)
    BY <2>1 DEF Find, Goto
  <2>2. CASE Reject(o)
    <3>1. PICK http \in Int : Fail(o, http)
      BY <2>2 DEF Reject, InjectedHttp
    <3> QED BY <2>2, <3>1, AnswerType DEF Reject, Fail, Goto
  <2>3. CASE Write(o)
    BY <2>3, OpsAssumption DEF Write, Goto
  <2>4. CASE WriteFails(o)
    BY <2>4, AnswerType DEF WriteFails, Fail, Goto
  <2>5. CASE Commit(o)
    <3>1. StockAfter(o, stock[Item(o)]) \in StockRow
      <4>1. stock[Item(o)] \in StockRow /\ catalog[Item(o)] \in CatalogRow
        BY BodyType
      <4> QED BY <4>1, RowsType
    <3>2. stock' \in [Products -> StockRow]
      BY <2>5, <3>1 DEF Commit
    <3> QED BY <2>5, <3>2 DEF Commit, Unlock, Goto
  <2>6. CASE Abort(o)
    BY <2>6, AnswerType DEF Abort, Unlock, Fail, Goto
  <2>7. CASE Respond(o)
    BY <2>7 DEF Respond, Goto
  <2> QED BY <1>1, <2>1, <2>2, <2>3, <2>4, <2>5, <2>6, <2>7 DEF OpStep
<1>2. ASSUME NEW o \in Ops, HandlerStep(o) PROVE TypeOK'
  <2>1. CASE LookUp(o)
    BY <2>1 DEF LookUp
  <2>2. CASE Apply(o)
    <3>1. CatalogAfter(o, catalog[Item(o)]) \in CatalogRow
      <4>1. stock[Item(o)] \in StockRow /\ catalog[Item(o)] \in CatalogRow
        BY BodyType
      <4> QED BY <4>1, RowsType
    <3>2. catalog' \in [Products -> CatalogRow]
      BY <2>2, <3>1 DEF Apply
    <3> QED BY <2>2, <3>2 DEF Apply, Finish
  <2>3. CASE HandlerFails(o)
    BY <2>3 DEF HandlerFails, Finish
  <2> QED BY <1>2, <2>1, <2>2, <2>3 DEF HandlerStep
<1>3. CASE InventoryCrash
  BY <1>3 DEF InventoryCrash, OpsLost
<1>4. CASE CheckoutCrash
  BY <1>4 DEF CheckoutCrash, CallsLost
<1>5. CASE UNCHANGED vars
  BY <1>5
<1> QED BY <1>1, <1>2, <1>3, <1>4, <1>5 DEF Next

LEMMA TypeInit == Init => TypeOK
<1> SUFFICES ASSUME Init PROVE TypeOK
  OBVIOUS
<1>1. [status : {"none", "live"}, price : Prices, avail : Stocks, oos : BOOLEAN]
        \subseteq StockRow
  BY StocksAssumption DEF StockRow, RowStatus
<1>2. [status : {"none", "live"}, price : Prices] \subseteq CatalogRow
  BY DEF CatalogRow, RowStatus
<1>3. stock \in [Products -> StockRow] /\ catalog \in [Products -> CatalogRow]
  BY <1>1, <1>2 DEF Init
<1> QED BY <1>3 DEF Init, TypeOK, StoresTypeOK

\* In every reachable state the variables have their types (TypeOK).
THEOREM TypeCorrect == Spec => []TypeOK
BY TypeInit, TypeStep, PTL DEF Spec
----------------------------------------------------------------------------
(***************************************************************************)
(* The inductive invariant of the saga                                     *)
(*                                                                         *)
(* The checkout hears of a request only from inside the transaction of the *)
(* inventory, its handler ends with "ok" exactly when the request was      *)
(* applied, and the inventory commits only after that.                     *)
(***************************************************************************)

\* Before the inventory has its lock, the checkout has not heard of the request.
NotYetCalled(o) == adm[o] \in {"idle", "found"} => rpc[o] = "none"

\* A reply ends the handler, and "ok" is the reply of exactly the applied.
ReplyTells(o) ==
  /\ reply[o] # "none" <=> rpc[o] = "replied"
  /\ reply[o] = "ok" <=> o \in applied

\* A request is committed only when it is applied and past its call.
CommittedLate(o) ==
  /\ o \in committed => o \in applied
  /\ adm[o] = "committed" => o \in committed
  /\ adm[o] \in {"idle", "found", "calling"} => o \notin committed

\* A client has its answer at the end; what a 4xx refuses was never sent on.
Told(o) ==
  /\ answer[o] # "none" => adm[o] = "done"
  /\ answer[o] = "ok" => o \in committed
  /\ answer[o] \in Failures => o \notin committed
  /\ answer[o] = "client_error" => rpc[o] = "none"

Locked(o) == invWriter = o <=> adm[o] = "calling"

OpInv(o) == NotYetCalled(o) /\ ReplyTells(o) /\ CommittedLate(o) /\ Told(o) /\ Locked(o)

ProtocolInv == \A o \in Ops : OpInv(o)

LEMMA ProtocolInit == Init => ProtocolInv
BY NoOneAssumption, OpsAssumption
   DEF Init, ProtocolInv, OpInv, NotYetCalled, ReplyTells, CommittedLate, Told,
       Locked, Failures

LEMMA ProtocolStep == TypeOK /\ ProtocolInv /\ [Next]_vars => ProtocolInv'
<1> SUFFICES ASSUME TypeOK, ProtocolInv, [Next]_vars, NEW q \in Ops
             PROVE  OpInv(q)'
  BY DEF ProtocolInv
<1> USE DEF OpInv, NotYetCalled, ReplyTells, CommittedLate, Told, Locked,
        Serving, Failures, vars, storeVars, admVars, rpcVars
<1>0. OpInv(q)
  BY DEF ProtocolInv
<1>1. ASSUME NEW o \in Ops, OpStep(o) PROVE OpInv(q)'
  <2>0. OpInv(o)
    BY DEF ProtocolInv
  <2>1. CASE Find(o)
    BY <1>0, <2>0, <2>1 DEF Find, Goto, TypeOK
  <2>2. CASE Reject(o)
    <3>1. PICK http \in Int : Fail(o, http)
      BY <2>2 DEF Reject, InjectedHttp
    <3>2. AnswerTo(http) \in Failures
      BY AnswerType
    <3> QED BY <1>0, <2>0, <2>2, <3>1, <3>2 DEF Reject, Fail, Goto, TypeOK
  <2>3. CASE Write(o)
    BY <1>0, <2>0, <2>3, OpsAssumption, NoOneAssumption DEF Write, Goto, TypeOK
  <2>4. CASE WriteFails(o)
    BY <1>0, <2>0, <2>4, AnswerType DEF WriteFails, Fail, Goto, TypeOK
  <2>5. CASE Commit(o)
    BY <1>0, <2>0, <2>5, OpsAssumption, NoOneAssumption
       DEF Commit, Unlock, Goto, TypeOK
  <2>6. CASE Abort(o)
    BY <1>0, <2>0, <2>6, AnswerType, OpsAssumption, NoOneAssumption
       DEF Abort, Unlock, Fail, Goto, TypeOK
  <2>7. CASE Respond(o)
    BY <1>0, <2>0, <2>7 DEF Respond, Goto, TypeOK
  <2> QED BY <1>1, <2>1, <2>2, <2>3, <2>4, <2>5, <2>6, <2>7 DEF OpStep
<1>2. ASSUME NEW o \in Ops, HandlerStep(o) PROVE OpInv(q)'
  <2>0. OpInv(o)
    BY DEF ProtocolInv
  <2>1. CASE LookUp(o)
    BY <1>0, <2>0, <2>1 DEF LookUp, TypeOK
  <2>2. CASE Apply(o)
    BY <1>0, <2>0, <2>2 DEF Apply, Finish, TypeOK
  <2>3. CASE HandlerFails(o)
    BY <1>0, <2>0, <2>3 DEF HandlerFails, Finish, TypeOK
  <2> QED BY <1>2, <2>1, <2>2, <2>3 DEF HandlerStep
<1>3. CASE InventoryCrash
  BY <1>0, <1>3, NoOneAssumption, OpsAssumption DEF InventoryCrash, OpsLost, Running, TypeOK
<1>4. CASE CheckoutCrash
  BY <1>0, <1>4 DEF CheckoutCrash, CallsLost, TypeOK
<1>5. CASE UNCHANGED vars
  BY <1>0, <1>5
<1> QED BY <1>1, <1>2, <1>3, <1>4, <1>5 DEF Next

\* The protocol invariant holds in every reachable state.
THEOREM ProtocolCorrect == Spec => []ProtocolInv
BY TypeCorrect, ProtocolInit, ProtocolStep, PTL DEF Spec

\* The write lock of the inventory is held by the request in its call, and by no
\* other (LockIsOwned): no path out of the transaction forgets it.
THEOREM LockIsAlwaysOwned == Spec => []LockIsOwned
<1>1. ProtocolInv => LockIsOwned
  BY DEF ProtocolInv, OpInv, Locked, LockIsOwned
<1> QED BY <1>1, ProtocolCorrect, PTL

----------------------------------------------------------------------------
(***************************************************************************)
(* Catalog implements OrderLedger                                          *)
(***************************************************************************)
LEMMA LedgerStep ==
  TypeOK /\ ProtocolInv /\ [Next]_vars => [Ledger!Next]_Ledger!ledgerVars
<1> SUFFICES ASSUME TypeOK, ProtocolInv, [Next]_vars
             PROVE  [Ledger!Next]_Ledger!ledgerVars
  OBVIOUS
<1> USE DEF vars, storeVars, admVars, rpcVars, Ledger!ledgerVars
<1>1. ASSUME NEW o \in Ops, OpStep(o) PROVE [Ledger!Next]_Ledger!ledgerVars
  <2>0. OpInv(o)
    BY DEF ProtocolInv
  <2> USE DEF OpInv, NotYetCalled, ReplyTells, CommittedLate, Told
  <2>a. ASSUME NEW http \in Int, Fail(o, http), UNCHANGED applied,
               o \notin committed, answer[o] = "none",
               AnswerTo(http) = "client_error" => o \notin applied
        PROVE  Ledger!Next
    <3>1. AnswerTo(http) \in Ledger!Failures
      BY AnswerType DEF Failures, Ledger!Failures
    <3>2. Ledger!Refuse(o, AnswerTo(http))
      BY <2>a DEF Fail, Ledger!Refuse
    <3> QED BY <3>1, <3>2 DEF Ledger!Next
  <2>1. CASE Find(o)
    BY <2>1 DEF Find
  <2>2. CASE Reject(o)
    <3>1. PICK http \in Int : Fail(o, http)
      BY <2>2 DEF Reject, InjectedHttp
    <3> QED BY <2>0, <2>a, <2>2, <3>1 DEF Reject, TypeOK
  <2>3. CASE Write(o)
    BY <2>3 DEF Write
  <2>4. CASE WriteFails(o)
    BY <2>0, <2>a, <2>4, AnswerType DEF WriteFails, TypeOK
  <2>5. CASE Commit(o)
    BY <2>0, <2>5 DEF Commit, Ledger!Next, Ledger!Place, TypeOK
  <2>6. CASE Abort(o)
    BY <2>0, <2>a, <2>6, AnswerType DEF Abort, TypeOK
  <2>7. CASE Respond(o)
    BY <2>0, <2>7 DEF Respond, Ledger!Next, Ledger!Confirm, TypeOK
  <2> QED BY <1>1, <2>1, <2>2, <2>3, <2>4, <2>5, <2>6, <2>7 DEF OpStep
<1>2. ASSUME NEW o \in Ops, HandlerStep(o) PROVE [Ledger!Next]_Ledger!ledgerVars
  <2>1. CASE Apply(o)
    <3>1. OpInv(o) /\ rpc[o] \in Serving
      BY <2>1 DEF ProtocolInv, Apply, Serving
    <3>2. o \notin applied /\ answer[o] # "client_error"
      BY <3>1 DEF OpInv, ReplyTells, Told, Serving
    <3>3. Ledger!Register(o)
      BY <2>1, <3>2 DEF Apply, Ledger!Register
    <3> QED BY <3>3 DEF Ledger!Next
  <2>2. CASE ~Apply(o)
    BY <1>2, <2>2 DEF HandlerStep, LookUp, HandlerFails
  <2> QED BY <2>1, <2>2
<1>3. CASE InventoryCrash
  BY <1>3 DEF InventoryCrash, OpsLost
<1>4. CASE CheckoutCrash
  BY <1>4 DEF CheckoutCrash, CallsLost
<1>5. CASE UNCHANGED vars
  BY <1>5
<1> QED BY <1>1, <1>2, <1>3, <1>4, <1>5 DEF Next

\* A change of a product implements the ledger of OrderLedger.tla with the two
\* services in each other's place (ImplementsLedger).
THEOREM Implementation == Spec => ImplementsLedger
<1>1. Init => Ledger!Init
  BY DEF Init, Ledger!Init
<1> QED
  BY <1>1, LedgerStep, TypeCorrect, ProtocolCorrect, PTL
     DEF Spec, ImplementsLedger, Ledger!Spec
----------------------------------------------------------------------------
(***************************************************************************)
(* Which rows there are                                                    *)
(*                                                                         *)
(* A creation has a SID of its own, for which neither service has a row    *)
(* until the checkout applies it; everything else is about a row there is. *)
(***************************************************************************)

\* A creation has its SID to itself.
OwnSid == \A o, x \in Ops :
  Kind(o) = "create" /\ Kind(x) = "create" /\ Item(o) = Item(x) => o = x

\* What is applied has a row in the checkout.
AppliedHasRow == \A o \in applied : catalog[Item(o)].status # "none"

\* What was found in the inventory has a row there.
FoundHasRow == \A o \in Ops :
  Kind(o) # "create" /\ adm[o] \in {"found", "calling"} => stock[Item(o)].status # "none"

\* Until a creation is applied, neither service has a row and no handler has found one.
FreshSid == \A o \in Ops \ applied : Kind(o) = "create" =>
  /\ catalog[Item(o)].status = "none"
  /\ stock[Item(o)].status = "none"
  /\ \A x \in Ops : Item(x) = Item(o) => rpc[x] # "found"

SidsInv == OwnSid /\ AppliedHasRow /\ FoundHasRow /\ FreshSid /\ StockIsInCatalog

LEMMA SidsInit == Init => SidsInv
<1> SUFFICES ASSUME Init PROVE SidsInv
  OBVIOUS
<1>1. OwnSid /\ AppliedHasRow /\ FoundHasRow /\ FreshSid
  BY DEF Init, OwnSid, AppliedHasRow, FoundHasRow, FreshSid
<1>2. StockIsInCatalog
  BY DEF Init, StockIsInCatalog, Same
<1> QED BY <1>1, <1>2 DEF SidsInv

\* The commit of the holder: the row it writes has one in the checkout, and is not one
\* that a creation waits for.
LEMMA SidsCommit ==
  ASSUME TypeOK, ProtocolInv, SidsInv, NEW o \in Ops, Commit(o)
  PROVE  SidsInv'
<1> DEFINE p == Item(o)
<1>0. OpInv(o) /\ adm[o] = "calling" /\ o \in applied /\ p \in Products
  BY BodyType DEF ProtocolInv, OpInv, ReplyTells, Commit
<1>1. /\ stock' = [stock EXCEPT ![p] = StockAfter(o, @)]
      /\ committed' = committed \cup {o}
      /\ adm' = [adm EXCEPT ![o] = "committed"]
      /\ UNCHANGED <<catalog, body, applied, rpc>>
  BY DEF Commit, Unlock, Goto, rpcVars
<1>3. stock[p] \in StockRow /\ catalog[p] \in CatalogRow
  BY <1>0 DEF TypeOK, StoresTypeOK
<1>4. stock'[p] = StockAfter(o, stock[p]) /\ stock'[p].status # "none"
  BY <1>0, <1>1, <1>3, RowsType DEF TypeOK, StoresTypeOK
<1>5. \A q \in Products : q # p => stock'[q] = stock[q]
  BY <1>1 DEF TypeOK, StoresTypeOK
<1>6. \A x \in Ops : Item(x)' = Item(x) /\ Kind(x)' = Kind(x) /\ Item(x) \in Products
  BY <1>1, BodyType DEF Item, Kind
<1>7. OwnSid' /\ AppliedHasRow'
  BY <1>1, <1>6 DEF SidsInv, OwnSid, AppliedHasRow, Item, Kind, TypeOK
<1>8. FoundHasRow'
  BY <1>1, <1>4, <1>5, <1>6 DEF SidsInv, FoundHasRow, TypeOK
<1>9. FreshSid'
  <2> SUFFICES ASSUME NEW x \in Ops \ applied, Kind(x) = "create"
               PROVE  stock'[Item(x)].status = "none"
    BY <1>1, <1>6 DEF SidsInv, FreshSid
  <2>1. catalog[Item(x)].status = "none" /\ stock[Item(x)].status = "none"
    BY DEF SidsInv, FreshSid
  <2>2. Item(x) # p
    BY <2>1, <1>0 DEF SidsInv, AppliedHasRow
  <2> QED BY <2>1, <2>2, <1>5, <1>6
<1>11. StockIsInCatalog'
  BY <1>0, <1>1, <1>5 DEF SidsInv, AppliedHasRow, StockIsInCatalog
<1> QED BY <1>7, <1>8, <1>9, <1>11 DEF SidsInv

\* The statement of the checkout makes a row of its SID, if there was none, and no
\* creation but its own was waiting for that.
LEMMA SidsApply ==
  ASSUME TypeOK, ProtocolInv, SidsInv, NEW o \in Ops, Apply(o)
  PROVE  SidsInv'
<1> DEFINE p == Item(o)
<1>0. OpInv(o) /\ p \in Products /\ o \notin applied /\ o \notin committed
  BY BodyType DEF ProtocolInv, OpInv, ReplyTells, CommittedLate, Apply
<1>1. /\ catalog' = [catalog EXCEPT ![p] = CatalogAfter(o, @)]
      /\ applied' = applied \cup {o}
      /\ rpc' = [rpc EXCEPT ![o] = "replied"]
      /\ UNCHANGED <<stock, body, committed, adm>>
  BY DEF Apply, Finish, admVars
<1>2. stock[p] \in StockRow /\ catalog[p] \in CatalogRow
  BY <1>0 DEF TypeOK, StoresTypeOK
<1>3. catalog'[p] = CatalogAfter(o, catalog[p]) /\ catalog'[p].status # "none"
  BY <1>0, <1>1, <1>2, RowsType DEF TypeOK, StoresTypeOK
<1>4. \A q \in Products : q # p => catalog'[q] = catalog[q]
  BY <1>1 DEF TypeOK, StoresTypeOK
<1>5. \A x \in Ops : Item(x)' = Item(x) /\ Kind(x)' = Kind(x) /\ Item(x) \in Products
  BY <1>1, BodyType DEF Item, Kind
<1>6. OwnSid' /\ FoundHasRow'
  BY <1>1, <1>5 DEF SidsInv, OwnSid, FoundHasRow
<1>7. AppliedHasRow'
  BY <1>1, <1>3, <1>4, <1>5 DEF SidsInv, AppliedHasRow, TypeOK
<1>8. FreshSid'
  <2> SUFFICES ASSUME NEW x \in Ops \ applied', Kind(x) = "create"
               PROVE  /\ catalog'[Item(x)].status = "none"
                      /\ stock[Item(x)].status = "none"
                      /\ \A y \in Ops : Item(y) = Item(x) => rpc'[y] # "found"
    BY <1>1, <1>5 DEF FreshSid
  <2>1. /\ catalog[Item(x)].status = "none" /\ stock[Item(x)].status = "none"
        /\ \A y \in Ops : Item(y) = Item(x) => rpc[y] # "found"
    BY <1>1 DEF SidsInv, FreshSid
  <2>2. Item(x) # p
    <3>1. CASE Kind(o) = "create"
      BY <3>1, <1>1 DEF SidsInv, OwnSid
    <3>2. CASE Kind(o) # "create"
      BY <3>2, <2>1 DEF Apply
    <3> QED BY <3>1, <3>2
  <2>3. \A y \in Ops : rpc'[y] = "found" => rpc[y] = "found"
    BY <1>1 DEF TypeOK
  <2> QED BY <2>1, <2>2, <2>3, <1>4, <1>5
<1>9. StockIsInCatalog'
  BY <1>1, <1>3, <1>4 DEF SidsInv, StockIsInCatalog
<1> QED BY <1>6, <1>7, <1>8, <1>9 DEF SidsInv

LEMMA SidsStep == TypeOK /\ ProtocolInv /\ SidsInv /\ [Next]_vars => SidsInv'
<1> SUFFICES ASSUME TypeOK, ProtocolInv, SidsInv, [Next]_vars PROVE SidsInv'
  OBVIOUS
<1> USE DEF vars, storeVars, admVars, rpcVars
<1>a. ASSUME UNCHANGED <<catalog, stock, body, applied>>,
             \A x \in Ops : adm'[x] \in {"found", "calling"} =>
               \/ adm[x] \in {"found", "calling"}
               \/ Kind(x) = "create" \/ Live(stock[Item(x)]),
             \A x \in Ops : rpc'[x] = "found" =>
               rpc[x] = "found" \/ Live(catalog[Item(x)])
      PROVE  SidsInv'
  <2>1. \A x \in Ops : Item(x)' = Item(x) /\ Kind(x)' = Kind(x)
    BY <1>a DEF Item, Kind
  <2>2. OwnSid' /\ AppliedHasRow' /\ StockIsInCatalog'
    BY <1>a DEF SidsInv, OwnSid, AppliedHasRow, StockIsInCatalog, Item, Kind
  <2>3. FoundHasRow'
    BY <1>a, <2>1 DEF SidsInv, FoundHasRow, Live
  <2>4. FreshSid'
    BY <1>a, <2>1 DEF SidsInv, FreshSid, Live
  <2> QED BY <2>2, <2>3, <2>4 DEF SidsInv
<1>1. ASSUME NEW o \in Ops, OpStep(o) PROVE SidsInv'
  <2>1. CASE Find(o)
    BY <2>1, <1>a DEF Find, Goto, TypeOK
  <2>2. CASE Reject(o)
    BY <2>2, <1>a DEF Reject, Fail, Goto, TypeOK
  <2>3. CASE Write(o)
    BY <2>3, <1>a DEF Write, Goto, TypeOK
  <2>4. CASE WriteFails(o)
    BY <2>4, <1>a DEF WriteFails, Fail, Goto, TypeOK
  <2>5. CASE Commit(o)
    BY <2>5, SidsCommit
  <2>6. CASE Abort(o)
    BY <2>6, <1>a DEF Abort, Unlock, Fail, Goto, TypeOK
  <2>7. CASE Respond(o)
    BY <2>7, <1>a DEF Respond, Goto, TypeOK
  <2> QED BY <1>1, <2>1, <2>2, <2>3, <2>4, <2>5, <2>6, <2>7 DEF OpStep
<1>2. ASSUME NEW o \in Ops, HandlerStep(o) PROVE SidsInv'
  <2>1. CASE LookUp(o)
    BY <2>1, <1>a DEF LookUp, TypeOK
  <2>2. CASE Apply(o)
    BY <2>2, SidsApply
  <2>3. CASE HandlerFails(o)
    BY <2>3, <1>a DEF HandlerFails, Finish, TypeOK
  <2> QED BY <1>2, <2>1, <2>2, <2>3 DEF HandlerStep
<1>3. CASE InventoryCrash
  BY <1>3, <1>a DEF InventoryCrash, OpsLost, Running, TypeOK
<1>4. CASE CheckoutCrash
  BY <1>4, <1>a DEF CheckoutCrash, CallsLost, Serving, TypeOK
<1>5. CASE UNCHANGED vars
  BY <1>5, <1>a
<1> QED BY <1>1, <1>2, <1>3, <1>4, <1>5 DEF Next

LEMMA SidsCorrect == Spec => []SidsInv
BY SidsInit, SidsStep, TypeCorrect, ProtocolCorrect, PTL DEF Spec

\* A product of the inventory has a row in the checkout (StockIsInCatalog).
THEOREM StockAlwaysInCatalog == Spec => []StockIsInCatalog
BY SidsCorrect, PTL DEF SidsInv

----------------------------------------------------------------------------
(***************************************************************************)
(* What the two services show                                              *)
(*                                                                         *)
(* They may differ only through a request that was applied and not         *)
(* committed.  That is not inductive: while the holder of the lock waits,  *)
(* the row of the checkout must be what its commit will agree with, unless *)
(* an orphan has changed it since.                                         *)
(***************************************************************************)

\* The row of the checkout is what this request made of it.
Shows(o) ==
  IF Kind(o) = "delete"
  THEN /\ catalog[Item(o)].status = "deleted"
       /\ catalog[Item(o)].price = ToInt32(stock[Item(o)].price)
  ELSE /\ catalog[Item(o)].status = "live"
       /\ catalog[Item(o)].price = ToInt32(body[o].price)

\* An orphan: a request on this product that only the checkout carried out.
Orphan(x, p) == x \in applied \ committed /\ Item(x) = p

CommitWillAgree == \A o \in applied : adm[o] = "calling" =>
  \/ Shows(o)
  \/ \E x \in Ops \ {o} : Orphan(x, Item(o))

RowsInv == SidsInv /\ CommitWillAgree /\ DisagreementHasACause

LEMMA RowsInit == Init => RowsInv
<1> SUFFICES ASSUME Init PROVE RowsInv
  OBVIOUS
<1>1. CommitWillAgree
  BY DEF Init, CommitWillAgree
<1>2. DisagreementHasACause
  <2> SUFFICES ASSUME NEW p \in Products, stock[p].status # "none" PROVE Same(p)
    BY DEF DisagreementHasACause
  <2> QED BY DEF Init
<1> QED BY <1>1, <1>2, SidsInit DEF RowsInv

\* A step that touches neither table, nor what was applied or committed, and brings
\* none of the applied into its call.
LEMMA RowsUntouched ==
  ASSUME RowsInv, UNCHANGED <<catalog, stock, body, applied, committed>>,
         \A o \in applied : adm'[o] = "calling" => adm[o] = "calling"
  PROVE  CommitWillAgree' /\ DisagreementHasACause'
<1> USE DEF RowsInv, Item, Kind
<1>1. CommitWillAgree'
  BY DEF CommitWillAgree, Shows, Orphan
<1>2. DisagreementHasACause'
  BY DEF DisagreementHasACause, Same
<1> QED BY <1>1, <1>2

\* The commit of the holder: its row now agrees with the checkout, or an orphan is why.
LEMMA RowsCommit ==
  ASSUME TypeOK, ProtocolInv, RowsInv, NEW o \in Ops, Commit(o)
  PROVE  CommitWillAgree' /\ DisagreementHasACause'
<1> DEFINE p == Item(o)
<1>0. OpInv(o) /\ adm[o] = "calling" /\ o \in applied /\ p \in Products
  BY BodyType DEF ProtocolInv, OpInv, ReplyTells, Commit
<1>1. /\ stock' = [stock EXCEPT ![p] = StockAfter(o, @)]
      /\ committed' = committed \cup {o}
      /\ adm' = [adm EXCEPT ![o] = "committed"]
      /\ UNCHANGED <<catalog, body, applied, rpc>>
  BY DEF Commit, Unlock, Goto, rpcVars
<1>2. \A x \in Ops \ {o} : adm[x] # "calling"
  BY <1>0 DEF ProtocolInv, OpInv, Locked
<1>3. stock[p] \in StockRow /\ catalog[p] \in CatalogRow
  BY <1>0 DEF TypeOK, StoresTypeOK
<1>4. stock'[p] = StockAfter(o, stock[p]) /\ stock'[p].status # "none"
  BY <1>0, <1>1, <1>3, RowsType DEF TypeOK, StoresTypeOK
<1>5. \A q \in Products : q # p => stock'[q] = stock[q]
  BY <1>1 DEF TypeOK, StoresTypeOK
<1>6. \A x \in Ops : Item(x)' = Item(x) /\ Kind(x)' = Kind(x) /\ Item(x) \in Products
  BY <1>1, BodyType DEF Item, Kind
<1>10. CommitWillAgree'
  BY <1>1, <1>2 DEF CommitWillAgree, TypeOK
<1>12. DisagreementHasACause'
  <2> SUFFICES ASSUME NEW q \in Products, stock'[q].status # "none"
               PROVE  Same(q)' \/ \E x \in applied' \ committed' : Item(x)' = q
    BY DEF DisagreementHasACause
  <2>1. CASE q # p
    <3>1. Same(q) \/ \E x \in applied \ committed : Item(x) = q
      BY <2>1, <1>5 DEF RowsInv, DisagreementHasACause
    <3>2. CASE Same(q)
      BY <2>1, <3>2, <1>1, <1>5 DEF Same
    <3>3. CASE \E x \in applied \ committed : Item(x) = q
      BY <2>1, <3>3, <1>1, <1>6 DEF TypeOK
    <3> QED BY <3>1, <3>2, <3>3
  <2>2. CASE q = p /\ \E x \in Ops \ {o} : Orphan(x, p)
    BY <2>2, <1>1, <1>6 DEF Orphan
  <2>3. CASE q = p /\ Shows(o)
    <3>1. CASE Kind(o) = "delete"
      <4>1. stock'[p] = [stock[p] EXCEPT !.status = "deleted"]
        BY <1>4, <3>1 DEF StockAfter
      <4>2. stock'[p].status = "deleted" /\ stock'[p].price = stock[p].price
        BY <4>1, <1>3 DEF StockRow
      <4> QED BY <2>3, <3>1, <4>2, <1>1 DEF Shows, Same
    <3>2. CASE Kind(o) # "delete"
      <4>1. stock'[p].status = "live" /\ stock'[p].price = body[o].price
        <5>1. CASE Kind(o) = "create"
          BY <5>1, <1>4 DEF StockAfter
        <5>2. CASE Kind(o) = "update"
          BY <5>2, <1>4 DEF StockAfter
        <5> QED BY <5>1, <5>2, <3>2, BodyType
      <4> QED BY <2>3, <3>2, <4>1, <1>1 DEF Shows, Same
    <3> QED BY <3>1, <3>2
  <2> QED BY <2>1, <2>2, <2>3, <1>0 DEF RowsInv, CommitWillAgree
<1> QED BY <1>10, <1>12

\* The statement of the checkout: from now on its request is the cause of whatever
\* differs, also for the holder of the lock, unless it is the holder itself.
LEMMA RowsApply ==
  ASSUME TypeOK, ProtocolInv, RowsInv, NEW o \in Ops, Apply(o)
  PROVE  CommitWillAgree' /\ DisagreementHasACause'
<1> DEFINE p == Item(o)
<1>0. OpInv(o) /\ p \in Products /\ o \notin applied /\ o \notin committed
  BY BodyType DEF ProtocolInv, OpInv, ReplyTells, CommittedLate, Apply
<1>1. /\ catalog' = [catalog EXCEPT ![p] = CatalogAfter(o, @)]
      /\ applied' = applied \cup {o}
      /\ rpc' = [rpc EXCEPT ![o] = "replied"]
      /\ UNCHANGED <<stock, body, committed, adm>>
  BY DEF Apply, Finish, admVars
<1>2. stock[p] \in StockRow /\ catalog[p] \in CatalogRow
  BY <1>0 DEF TypeOK, StoresTypeOK
<1>3. catalog'[p] = CatalogAfter(o, catalog[p]) /\ catalog'[p].status # "none"
  BY <1>0, <1>1, <1>2, RowsType DEF TypeOK, StoresTypeOK
<1>4. \A q \in Products : q # p => catalog'[q] = catalog[q]
  BY <1>1 DEF TypeOK, StoresTypeOK
<1>5. \A x \in Ops : Item(x)' = Item(x) /\ Kind(x)' = Kind(x) /\ Item(x) \in Products
  BY <1>1, BodyType DEF Item, Kind
<1>10. DisagreementHasACause'
  <2> SUFFICES ASSUME NEW q \in Products, stock'[q].status # "none"
               PROVE  Same(q)' \/ \E x \in applied' \ committed' : Item(x)' = q
    BY DEF DisagreementHasACause
  <2>1. CASE q = p
    BY <2>1, <1>0, <1>1, <1>5
  <2>2. CASE q # p
    <3>1. Same(q) \/ \E x \in applied \ committed : Item(x) = q
      BY <1>1 DEF RowsInv, DisagreementHasACause
    <3>2. CASE Same(q)
      BY <3>2, <2>2, <1>1, <1>4 DEF Same
    <3>3. CASE \E x \in applied \ committed : Item(x) = q
      BY <3>3, <1>1, <1>5 DEF TypeOK
    <3> QED BY <3>1, <3>2, <3>3
  <2> QED BY <2>1, <2>2
<1>11. CommitWillAgree'
  <2> SUFFICES ASSUME NEW h \in applied', adm[h] = "calling"
               PROVE  Shows(h)' \/ \E x \in Ops \ {h} : Orphan(x, Item(h))'
    BY <1>1, <1>5 DEF CommitWillAgree, Orphan
  <2>0. h \in Ops
    BY <1>1 DEF TypeOK
  <2>1. CASE h = o
    <3>1. CASE Kind(o) # "delete"
      BY <2>1, <3>1, <1>1, <1>3, <1>5 DEF Shows, CatalogAfter
    <3>2. CASE Kind(o) = "delete"
      <4>1. catalog'[p].status = "deleted" /\ catalog'[p].price = catalog[p].price
        BY <3>2, <1>2, <1>3 DEF CatalogAfter, CatalogRow
      <4>2. stock[p].status # "none"
        BY <2>1, <3>2 DEF RowsInv, SidsInv, FoundHasRow
      <4>3. CASE Same(p)
        BY <2>1, <3>2, <4>1, <4>3, <1>1, <1>5 DEF Same, Shows
      <4>4. CASE \E x \in applied \ committed : Item(x) = p
        <5>1. PICK x \in applied \ committed : Item(x) = p
          BY <4>4
        <5>2. x \in Ops \ {o}
          BY <5>1, <1>0 DEF TypeOK
        <5>3. Orphan(x, Item(o))'
          BY <5>1, <5>2, <1>1, <1>0, <1>5 DEF Orphan
        <5> QED BY <2>1, <5>2, <5>3
      <4> QED BY <4>2, <4>3, <4>4, <1>0 DEF RowsInv, DisagreementHasACause
    <3> QED BY <3>1, <3>2
  <2>2. CASE h # o /\ Item(h) = p
    <3>1. Orphan(o, Item(h))'
      BY <2>0, <2>2, <1>0, <1>1, <1>5 DEF Orphan
    <3> QED BY <2>2, <3>1
  <2>3. CASE h # o /\ Item(h) # p
    <3>1. h \in applied /\ catalog'[Item(h)] = catalog[Item(h)]
      BY <2>0, <2>3, <1>1, <1>4, <1>5
    <3>2. CASE Shows(h)
      BY <2>0, <3>1, <3>2, <1>1, <1>5 DEF Shows
    <3>3. CASE \E x \in Ops \ {h} : Orphan(x, Item(h))
      BY <2>0, <3>3, <1>1, <1>5 DEF Orphan
    <3> QED BY <3>1, <3>2, <3>3 DEF RowsInv, CommitWillAgree
  <2> QED BY <2>1, <2>2, <2>3
<1> QED BY <1>10, <1>11

LEMMA RowsStep == TypeOK /\ ProtocolInv /\ RowsInv /\ [Next]_vars => RowsInv'
<1> SUFFICES ASSUME TypeOK, ProtocolInv, RowsInv, [Next]_vars
             PROVE  CommitWillAgree' /\ DisagreementHasACause'
  BY SidsStep DEF RowsInv
<1> USE DEF vars, storeVars, admVars, rpcVars
<1>1. ASSUME NEW o \in Ops, OpStep(o)
      PROVE  CommitWillAgree' /\ DisagreementHasACause'
  <2>1. CASE Find(o)
    BY <2>1, RowsUntouched DEF Find, Goto, TypeOK
  <2>2. CASE Reject(o)
    BY <2>2, RowsUntouched DEF Reject, Fail, Goto, TypeOK
  <2>3. CASE Write(o)
    <3>1. o \notin applied
      BY <2>3 DEF Write, ProtocolInv, OpInv, NotYetCalled, ReplyTells
    <3> QED BY <2>3, <3>1, RowsUntouched DEF Write, Goto, TypeOK
  <2>4. CASE WriteFails(o)
    BY <2>4, RowsUntouched DEF WriteFails, Fail, Goto, TypeOK
  <2>5. CASE Commit(o)
    BY <2>5, RowsCommit
  <2>6. CASE Abort(o)
    BY <2>6, RowsUntouched DEF Abort, Unlock, Fail, Goto, TypeOK
  <2>7. CASE Respond(o)
    BY <2>7, RowsUntouched DEF Respond, Goto, TypeOK
  <2> QED BY <1>1, <2>1, <2>2, <2>3, <2>4, <2>5, <2>6, <2>7 DEF OpStep
<1>2. ASSUME NEW o \in Ops, HandlerStep(o)
      PROVE  CommitWillAgree' /\ DisagreementHasACause'
  <2>1. CASE Apply(o)
    BY <2>1, RowsApply
  <2>2. CASE LookUp(o) \/ HandlerFails(o)
    BY <2>2, RowsUntouched DEF LookUp, HandlerFails, Finish
  <2> QED BY <1>2, <2>1, <2>2 DEF HandlerStep
<1>3. CASE InventoryCrash
  BY <1>3, RowsUntouched DEF InventoryCrash, OpsLost, Running, TypeOK
<1>4. CASE CheckoutCrash
  BY <1>4, RowsUntouched DEF CheckoutCrash
<1>5. CASE UNCHANGED vars
  BY <1>5, RowsUntouched
<1> QED BY <1>1, <1>2, <1>3, <1>4, <1>5 DEF Next

LEMMA RowsCorrect == Spec => []RowsInv
BY TypeCorrect, ProtocolCorrect, RowsInit, RowsStep, PTL DEF Spec

\* Two rows of one product differ only through an orphan (DisagreementHasACause).
THEOREM DisagreementsHaveACause == Spec => []DisagreementHasACause
BY RowsCorrect, PTL DEF RowsInv

----------------------------------------------------------------------------
(***************************************************************************)
(* Half deleted                                                            *)
(***************************************************************************)

\* None of the requests that the services still run or will accept touches either row
\* of a product that is deleted in the checkout only.
LEMMA HalfDeletedStays ==
  ASSUME TypeOK, ProtocolInv, SidsInv, [Next]_vars, NEW p \in Products, HalfDeleted(p)
  PROVE  HalfDeleted(p)'
<1> USE DEF HalfDeleted, Live, Item, Kind, vars, storeVars, admVars, rpcVars
<1>a. \A o \in Ops : Item(o) = p =>
        /\ ~Commit(o) /\ ~Apply(o) /\ ~LookUp(o)
  <2> SUFFICES ASSUME NEW o \in Ops, Item(o) = p
               PROVE  ~Commit(o) /\ ~Apply(o) /\ ~LookUp(o)
    OBVIOUS
  <2>1. ~Commit(o) /\ ~LookUp(o)
    BY DEF Commit, LookUp
  <2>2. CASE Kind(o) # "create"
    BY <2>1, <2>2 DEF Apply
  <2>3. CASE Kind(o) = "create"
    <3>1. o \in applied
      BY <2>3 DEF SidsInv, FreshSid
    <3>2. reply[o] = "ok" /\ rpc[o] = "replied"
      BY <3>1 DEF ProtocolInv, OpInv, ReplyTells
    <3> QED BY <2>1, <2>3, <3>2 DEF Apply
  <2> QED BY <2>2, <2>3
<1>b. ASSUME UNCHANGED <<catalog, stock, body>>,
             \A x \in Ops : Item(x) = p =>
               /\ rpc'[x] = "found" => rpc[x] = "found"
               /\ adm'[x] = "calling" /\ reply'[x] = "ok" =>
                     adm[x] = "calling" /\ reply[x] = "ok"
      PROVE  HalfDeleted(p)'
  BY <1>b
<1>1. ASSUME NEW o \in Ops, OpStep(o) PROVE HalfDeleted(p)'
  <2>1. CASE Find(o)
    BY <2>1, <1>b DEF Find, Goto, TypeOK
  <2>2. CASE Reject(o)
    BY <2>2, <1>b DEF Reject, Fail, Goto, TypeOK
  <2>3. CASE Write(o)
    <3>1. reply[o] # "ok"
      BY <2>3 DEF Write, ProtocolInv, OpInv, NotYetCalled, ReplyTells
    <3> QED BY <2>3, <3>1, <1>b DEF Write, Goto, TypeOK
  <2>4. CASE WriteFails(o)
    BY <2>4, <1>b DEF WriteFails, Fail, Goto, TypeOK
  <2>5. CASE Commit(o)
    <3>1. Item(o) # p
      BY <2>5, <1>a
    <3>2. stock'[p] = stock[p]
      BY <2>5, <3>1 DEF Commit, TypeOK, StoresTypeOK
    <3> QED BY <2>5, <3>1, <3>2 DEF Commit, Unlock, Goto, TypeOK
  <2>6. CASE Abort(o)
    BY <2>6, <1>b DEF Abort, Unlock, Fail, Goto, TypeOK
  <2>7. CASE Respond(o)
    BY <2>7, <1>b DEF Respond, Goto, TypeOK
  <2> QED BY <1>1, <2>1, <2>2, <2>3, <2>4, <2>5, <2>6, <2>7 DEF OpStep
<1>2. ASSUME NEW o \in Ops, HandlerStep(o) PROVE HalfDeleted(p)'
  <2>1. CASE LookUp(o)
    <3>1. Item(o) # p
      BY <2>1, <1>a
    <3> QED BY <2>1, <3>1, <1>b DEF LookUp, TypeOK
  <2>2. CASE Apply(o)
    <3>1. Item(o) # p
      BY <2>2, <1>a
    <3>2. catalog'[p] = catalog[p]
      BY <2>2, <3>1 DEF Apply, TypeOK, StoresTypeOK
    <3> QED BY <2>2, <3>1, <3>2 DEF Apply, Finish, TypeOK
  <2>3. CASE HandlerFails(o)
    BY <2>3, <1>b DEF HandlerFails, Finish, TypeOK
  <2> QED BY <1>2, <2>1, <2>2, <2>3 DEF HandlerStep
<1>3. CASE InventoryCrash
  BY <1>3, <1>b DEF InventoryCrash, OpsLost, Running, TypeOK
<1>4. CASE CheckoutCrash
  BY <1>4, <1>b DEF CheckoutCrash, CallsLost, TypeOK
<1>5. CASE UNCHANGED vars
  BY <1>5
<1> QED BY <1>1, <1>2, <1>3, <1>4, <1>5 DEF Next

\* A product deleted in the checkout only stays so for ever (HalfDeletedForEver).
THEOREM HalfDeletedIsFrozen == Spec => HalfDeletedForEver
<1>1. TypeOK /\ ProtocolInv /\ SidsInv /\ [Next]_vars =>
        [\A p \in Products : HalfDeleted(p) => HalfDeleted(p)']_vars
  BY HalfDeletedStays
<1> QED
  BY <1>1, TypeCorrect, ProtocolCorrect, SidsCorrect, PTL DEF Spec, HalfDeletedForEver

----------------------------------------------------------------------------
(***************************************************************************)
(* Stragglers                                                              *)
(***************************************************************************)

\* A delete that the checkout carried out and the inventory did not, or not yet.
LostDelete(p) ==
  \E d \in applied \ committed : Item(d) = p /\ Kind(d) = "delete"

\* A handler whose caller still waits finds its row alive: only a delete of another
\* request, which by the lock of the inventory waits no longer, can have taken it.
FoundAlive == \A o \in Ops :
  rpc[o] = "found" /\ adm[o] = "calling" /\ catalog[Item(o)].status = "deleted" =>
    LostDelete(Item(o))

LEMMA FoundAliveStep ==
  TypeOK /\ ProtocolInv /\ FoundAlive /\ [Next]_vars => FoundAlive'
<1> SUFFICES ASSUME TypeOK, ProtocolInv, FoundAlive, [Next]_vars,
                    NEW o \in Ops, rpc'[o] = "found", adm'[o] = "calling",
                    catalog'[Item(o)'].status = "deleted"
             PROVE  LostDelete(Item(o))'
  BY DEF FoundAlive
<1> USE DEF vars, storeVars, admVars, rpcVars
<1>0. /\ body' = body /\ Item(o)' = Item(o) /\ Item(o) \in Products
      /\ \A x \in Ops : Item(x)' = Item(x) /\ Kind(x)' = Kind(x)
  BY BodyType DEF Next, OpStep, Find, Reject, Write, WriteFails, Commit, Abort, Respond,
     HandlerStep, LookUp, Apply, HandlerFails, InventoryCrash, CheckoutCrash, Item, Kind
<1>1. ASSUME rpc[o] = "found", adm[o] = "calling", UNCHANGED catalog,
             applied \subseteq applied', committed' \subseteq committed
      PROVE  LostDelete(Item(o))'
  <2>1. LostDelete(Item(o))
    BY <1>0, <1>1 DEF FoundAlive
  <2> QED BY <1>0, <1>1, <2>1 DEF LostDelete, TypeOK
<1>2. ASSUME NEW x \in Ops, OpStep(x) PROVE LostDelete(Item(o))'
  <2>1. CASE Find(x)
    BY <1>1, <2>1 DEF Find, Goto, TypeOK
  <2>2. CASE Reject(x)
    BY <1>1, <2>2 DEF Reject, Fail, Goto, TypeOK
  <2>3. CASE Write(x)
    BY <1>1, <2>3 DEF Write, Goto, TypeOK
  <2>4. CASE WriteFails(x)
    BY <1>1, <2>4 DEF WriteFails, Fail, Goto, TypeOK
  <2>5. CASE Commit(x)
    <3>1. adm[x] = "calling" /\ adm'[x] = "committed"
      BY <2>5 DEF Commit, Goto, TypeOK
    <3>2. x # o /\ adm[o] = "calling"
      BY <2>5, <3>1 DEF Commit, Goto, TypeOK
    <3> QED BY <3>1, <3>2 DEF ProtocolInv, OpInv, Locked
  <2>6. CASE Abort(x)
    BY <1>1, <2>6 DEF Abort, Unlock, Fail, Goto, TypeOK
  <2>7. CASE Respond(x)
    BY <1>1, <2>7 DEF Respond, Goto, TypeOK
  <2> QED BY <1>2, <2>1, <2>2, <2>3, <2>4, <2>5, <2>6, <2>7 DEF OpStep
<1>3. ASSUME NEW x \in Ops, HandlerStep(x) PROVE LostDelete(Item(o))'
  <2>1. CASE LookUp(x)
    <3>1. CASE x = o
      BY <1>0, <2>1, <3>1 DEF LookUp, Live
    <3>2. CASE x # o
      BY <1>1, <2>1, <3>2 DEF LookUp, TypeOK
    <3> QED BY <3>1, <3>2
  <2>2. CASE Apply(x)
    <3>1. /\ catalog' = [catalog EXCEPT ![Item(x)] = CatalogAfter(x, @)]
          /\ applied' = applied \cup {x}
          /\ rpc' = [rpc EXCEPT ![x] = "replied"]
          /\ UNCHANGED <<committed, adm>>
      BY <2>2 DEF Apply, Finish
    <3>2. x # o /\ rpc[o] = "found" /\ adm[o] = "calling"
      BY <3>1 DEF TypeOK
    <3>3. CASE Item(x) # Item(o)
      <4>1. catalog'[Item(o)] = catalog[Item(o)]
        BY <1>0, <3>1, <3>3 DEF TypeOK, StoresTypeOK
      <4>2. LostDelete(Item(o))
        BY <1>0, <3>2, <4>1 DEF FoundAlive
      <4> QED BY <1>0, <3>1, <4>2 DEF LostDelete, TypeOK
    <3>4. CASE Item(x) = Item(o)
      <4>1. catalog'[Item(o)] = CatalogAfter(x, catalog[Item(o)])
        BY <1>0, <3>1, <3>4 DEF TypeOK, StoresTypeOK
      <4>2. Kind(x) = "delete"
        BY <1>0, <4>1 DEF CatalogAfter
      <4>3. x \notin committed
        BY <2>2 DEF Apply, ProtocolInv, OpInv, ReplyTells, CommittedLate
      <4> QED BY <1>0, <3>1, <3>4, <4>2, <4>3 DEF LostDelete
    <3> QED BY <3>3, <3>4
  <2>3. CASE HandlerFails(x)
    BY <1>1, <2>3 DEF HandlerFails, Finish, TypeOK
  <2> QED BY <1>3, <2>1, <2>2, <2>3 DEF HandlerStep
<1>4. CASE InventoryCrash
  BY <1>1, <1>4 DEF InventoryCrash, OpsLost, Running, TypeOK
<1>5. CASE CheckoutCrash
  BY <1>1, <1>5 DEF CheckoutCrash, CallsLost, Serving, TypeOK
<1>6. CASE UNCHANGED vars
  BY <1>1, <1>6
<1> QED BY <1>2, <1>3, <1>4, <1>5, <1>6 DEF Next

LEMMA FoundAliveCorrect == Spec => []FoundAlive
<1>1. Init => FoundAlive
  BY DEF Init, FoundAlive
<1> QED BY <1>1, FoundAliveStep, TypeCorrect, ProtocolCorrect, PTL DEF Spec

\* Only an update that has found its row can bring it back to life, and by FoundAlive
\* either the update or the delete it overwrites is a straggler's.
LEMMA ReviverIsAStraggler ==
  ASSUME TypeOK, ProtocolInv, SidsInv, FoundAlive, [Next]_vars,
         NEW p \in Products, catalog[p].status = "deleted", Live(catalog'[p])
  PROVE  \E o \in Ops :
           /\ Item(o) = p /\ Kind(o) = "update" /\ rpc[o] = "found"
           /\ adm[o] \in {"done", "lost"} \/ LostDelete(p)
<1>1. catalog' # catalog
  BY DEF Live
<1>2. PICK o \in Ops : Apply(o)
  BY <1>1 DEF Next, OpStep, Find, Reject, Write, WriteFails, Commit, Abort, Respond,
     HandlerStep, LookUp, HandlerFails, InventoryCrash, CheckoutCrash, Unlock, vars, storeVars
<1>3. Item(o) = p /\ Kind(o) # "delete"
  <2>1. catalog' = [catalog EXCEPT ![Item(o)] = CatalogAfter(o, catalog[Item(o)])]
    BY <1>2 DEF Apply
  <2>2. Item(o) = p
    BY <2>1 DEF Live, TypeOK, StoresTypeOK
  <2>3. catalog[p] \in CatalogRow /\ catalog'[p] = CatalogAfter(o, catalog[p])
    BY <2>1, <2>2 DEF TypeOK, StoresTypeOK
  <2> QED BY <2>2, <2>3 DEF CatalogAfter, CatalogRow, Live
<1>4. OpInv(o) /\ o \notin applied /\ rpc[o] \in {"called", "found"}
  BY <1>2 DEF Apply, ProtocolInv, OpInv, ReplyTells
<1>5. Kind(o) = "update" /\ rpc[o] = "found"
  BY <1>2, <1>3, <1>4, BodyType DEF Apply, SidsInv, FreshSid
<1>6. adm[o] \in {"calling", "done", "lost"}
  BY <1>4 DEF OpInv, NotYetCalled, CommittedLate, TypeOK, Running
<1>7. adm[o] = "calling" => LostDelete(p)
  BY <1>3, <1>5 DEF FoundAlive
<1> QED BY <1>3, <1>5, <1>6, <1>7

\* A deleted product comes back in the checkout only through a handler that has
\* outlived its caller, or past a delete that has (RevivedByAStraggler).
THEOREM OnlyStragglersRevive == Spec => RevivedByAStraggler
<1>1. TypeOK /\ ProtocolInv /\ SidsInv /\ FoundAlive /\ [Next]_vars =>
        [\A p \in Products :
           catalog[p].status = "deleted" /\ Live(catalog'[p]) =>
             \E o \in Ops :
               /\ Item(o) = p /\ Kind(o) = "update" /\ rpc[o] = "found"
               /\ \/ adm[o] \in {"done", "lost"}
                  \/ \E d \in applied \ committed :
                       Item(d) = p /\ Kind(d) = "delete"]_vars
  BY ReviverIsAStraggler DEF LostDelete
<1> QED
  BY <1>1, TypeCorrect, ProtocolCorrect, SidsCorrect, FoundAliveCorrect, PTL
     DEF Spec, RevivedByAStraggler
=============================================================================
