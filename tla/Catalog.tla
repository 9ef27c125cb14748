------------------------------ MODULE Catalog ------------------------------
(***************************************************************************)
(* Changing a product: CreateProduct, UpdateProduct and DeleteProduct of   *)
(* inventory-service, and the handlers AddNewProduct, UpdateProduct and    *)
(* DeleteProduct of checkout-service that each of them calls in the middle *)
(* of its own transaction.                                                 *)
(*                                                                         *)
(* The transaction of the inventory keeps the write lock of its file       *)
(* during the call; a handler of the checkout is one statement, committed  *)
(* at once.  Both services may crash, and a call may end for the inventory *)
(* while its handler in the checkout goes on.                              *)
(***************************************************************************)
EXTENDS Stores, AppErrors

CONSTANTS
  Ops,        \* HTTP requests that change a product
  Stocks      \* quantities they set

ASSUME OpsAssumption == Ops \subseteq Clients
ASSUME StocksAssumption == Stocks \subseteq Int /\ Stocks # {}

VARIABLES
  body,       \* what each request asks for
  adm,        \* where its handler in the inventory is
  rpc,        \* where the handler it called in the checkout is
  reply,      \* what that handler ended with
  applied,    \* requests carried out in the checkout
  committed,  \* requests carried out in the inventory
  answer      \* what the client was told

admVars == <<adm, committed, answer>>
rpcVars == <<rpc, reply, applied>>
vars == <<storeVars, admVars, rpcVars, body>>

Body ==
  [kind : {"create", "update"}, product : Products, price : Prices, avail : Stocks]
    \cup [kind : {"delete"}, product : Products]
Running == {"found", "calling", "committed"}
Serving == {"called", "found"}

TypeOK ==
  /\ StoresTypeOK
  /\ body \in [Ops -> Body]
  /\ adm \in [Ops -> {"idle", "done", "lost"} \cup Running]
  /\ rpc \in [Ops -> {"none", "replied", "dead"} \cup Serving]
  /\ reply \in [Ops -> {"none", "ok", "error"}]
  /\ applied \subseteq Ops
  /\ committed \subseteq Ops
  /\ answer \in [Ops -> Failures \cup {"none", "ok"}]

Kind(o) == body[o].kind
Item(o) == body[o].product

----------------------------------------------------------------------------
(***************************************************************************)
(* Rows                                                                    *)
(***************************************************************************)

\* Mutant: an update leaves the flag as it was.
UpdateKeepsFlag(o, row) ==
  IF Kind(o) = "delete" THEN [row EXCEPT !.status = "deleted"]
  ELSE [status |-> "live", price |-> body[o].price, avail |-> body[o].avail,
        oos |-> Kind(o) = "update" /\ row.oos]

\* What the row of the inventory is after the request.  Save writes every column,
\* and inserts the row over one that was deleted since it was read.
StockAfter(o, row) ==
  CASE Kind(o) = "create" ->
         [status |-> "live", price |-> body[o].price, avail |-> body[o].avail,
          oos |-> FALSE]
    [] Kind(o) = "update" ->
         [status |-> "live", price |-> body[o].price, avail |-> body[o].avail,
          oos |-> body[o].avail <= 0]
    [] OTHER -> [row EXCEPT !.status = "deleted"]

\* Mutant: the message carries the price in hundredths.
PriceInHundredths(o, row) ==
  IF Kind(o) = "delete" THEN [row EXCEPT !.status = "deleted"]
  ELSE [status |-> "live", price |-> ToInt32(100 * body[o].price)]

\* What the row of the checkout is after the request; Save does the same here.
CatalogAfter(o, row) ==
  IF Kind(o) = "delete" THEN [row EXCEPT !.status = "deleted"]
  ELSE [status |-> "live", price |-> ToInt32(body[o].price)]

\* The two services show the same product.
Same(p) ==
  /\ stock[p].status = catalog[p].status
  /\ catalog[p].price = ToInt32(stock[p].price)

\* A product both services have, one only the checkout has (a saga that broke), or
\* one that is yet to be created, under a SID of its own.
Init ==
  /\ body \in [Ops -> Body]
  /\ stock \in [Products -> [status : {"none", "live"}, price : Prices,
                             avail : Stocks, oos : BOOLEAN]]
  /\ catalog \in [Products -> [status : {"none", "live"}, price : Prices]]
  /\ \A p \in Products : stock[p].status = "live" => Same(p)
  /\ \A o \in Ops : Kind(o) = "create" =>
       /\ stock[Item(o)].status = "none" /\ catalog[Item(o)].status = "none"
       /\ \A x \in Ops \ {o} : Kind(x) = "create" => Item(x) # Item(o)
  /\ coWriter = NoOne
  /\ invWriter = NoOne
  /\ adm = [o \in Ops |-> "idle"]
  /\ rpc = [o \in Ops |-> "none"]
  /\ reply = [o \in Ops |-> "none"]
  /\ applied = {}
  /\ committed = {}
  /\ answer = [o \in Ops |-> "none"]

----------------------------------------------------------------------------
(***************************************************************************)
(* inventory-service                                                       *)
(***************************************************************************)
Goto(o, s) == adm' = [adm EXCEPT ![o] = s]

Fail(o, http) ==
  /\ Goto(o, "done")
  /\ answer' = [answer EXCEPT ![o] = AnswerTo(http)]
  /\ UNCHANGED committed

\* An update or a delete looks for the row first, outside its transaction.
Find(o) ==
  /\ adm[o] = "idle"
  /\ Kind(o) # "create"
  /\ Live(stock[Item(o)])
  /\ Goto(o, "found")
  /\ UNCHANGED <<storeVars, rpcVars, body, committed, answer>>

\* An injected error, a body that does not parse, no such product, a failing query.
Reject(o) ==
  /\ adm[o] = "idle"
  /\ \/ \E http \in InjectedHttp : Fail(o, http)
     \/ Kind(o) # "create" /\ ~Live(stock[Item(o)]) /\ Fail(o, 404)
  /\ UNCHANGED <<storeVars, rpcVars, body>>

\* The write takes the lock; then, inside the transaction, the checkout is called.
Write(o) ==
  /\ adm[o] = IF Kind(o) = "create" THEN "idle" ELSE "found"
  /\ invWriter = NoOne
  /\ invWriter' = o
  /\ Goto(o, "calling")
  /\ rpc' = [rpc EXCEPT ![o] = "called"]
  /\ UNCHANGED <<catalog, stock, coWriter, body, reply, applied, committed, answer>>

WriteFails(o) ==
  /\ adm[o] = IF Kind(o) = "create" THEN "idle" ELSE "found"
  /\ Fail(o, 500)
  /\ UNCHANGED <<storeVars, rpcVars, body>>

Unlock(o) ==
  /\ invWriter = o
  /\ invWriter' = NoOne
  /\ UNCHANGED <<catalog, coWriter>>

\* Mutant: the error of the call is not looked at.
CommitAnyway(o) ==
  /\ adm[o] = "calling"
  /\ reply[o] # "none"
  /\ Unlock(o)
  /\ stock' = [stock EXCEPT ![Item(o)] = StockAfter(o, @)]
  /\ Goto(o, "committed")
  /\ committed' = committed \cup {o}
  /\ UNCHANGED <<rpcVars, body, answer>>

Commit(o) ==
  /\ adm[o] = "calling"
  /\ reply[o] = "ok"
  /\ Unlock(o)
  /\ stock' = [stock EXCEPT ![Item(o)] = StockAfter(o, @)]
  /\ Goto(o, "committed")
  /\ committed' = committed \cup {o}
  /\ UNCHANGED <<rpcVars, body, answer>>

\* Mutant: whatever the checkout or the connection reports is the fault of the client.
AbortAsClientError(o) ==
  /\ adm[o] = "calling"
  /\ Unlock(o)
  /\ Fail(o, 422)
  /\ UNCHANGED <<stock, rpcVars, body>>

\* An error of the checkout, whatever its code, a call that ends without the reply of
\* its handler, a commit that fails: the transaction rolls back and the answer is 500.
Abort(o) ==
  /\ adm[o] = "calling"
  /\ Unlock(o)
  /\ Fail(o, 500)
  /\ UNCHANGED <<stock, rpcVars, body>>

Respond(o) ==
  /\ adm[o] = "committed"
  /\ Goto(o, "done")
  /\ answer' = [answer EXCEPT ![o] = "ok"]
  /\ UNCHANGED <<storeVars, rpcVars, body, committed>>

\* A crash of the inventory takes every request it serves with it.
OpsLost == [o \in Ops |-> IF adm[o] \in Running THEN "lost" ELSE adm[o]]

\* The process dies with its handlers; the open transaction is rolled back.
InventoryCrash ==
  /\ \E o \in Ops : adm[o] \in Running
  /\ adm' = OpsLost
  /\ invWriter' = NoOne
  /\ UNCHANGED <<catalog, stock, coWriter, rpcVars, body, committed, answer>>

----------------------------------------------------------------------------
(***************************************************************************)
(* checkout-service                                                        *)
(***************************************************************************)
Finish(o, r) ==
  /\ rpc' = [rpc EXCEPT ![o] = "replied"]
  /\ reply' = [reply EXCEPT ![o] = r]

\* Mutant: a deleted row is found as well.
LookUpUnscoped(o) ==
  /\ rpc[o] = "called"
  /\ Kind(o) # "create"
  /\ catalog[Item(o)].status # "none"
  /\ rpc' = [rpc EXCEPT ![o] = "found"]
  /\ UNCHANGED <<storeVars, admVars, body, reply, applied>>

\* An update or a delete reads the row in a statement of its own.
LookUp(o) ==
  /\ rpc[o] = "called"
  /\ Kind(o) # "create"
  /\ Live(catalog[Item(o)])
  /\ rpc' = [rpc EXCEPT ![o] = "found"]
  /\ UNCHANGED <<storeVars, admVars, body, reply, applied>>

\* Mutant: the handler answers before its statement is carried out.
ReplyBeforeApply(o) ==
  /\ rpc[o] = IF Kind(o) = "create" THEN "called" ELSE "found"
  /\ Finish(o, "ok")
  /\ applied' = applied \cup {o}
  /\ UNCHANGED <<storeVars, admVars, body>>

Apply(o) ==
  /\ rpc[o] = IF Kind(o) = "create" THEN "called" ELSE "found"
  /\ coWriter = NoOne
  /\ catalog' = [catalog EXCEPT ![Item(o)] = CatalogAfter(o, @)]
  /\ applied' = applied \cup {o}
  /\ Finish(o, "ok")
  /\ UNCHANGED <<stock, coWriter, invWriter, admVars, body>>

\* Mutant: the handler tries again for ever.
HandlerRetries(o) ==
  /\ rpc[o] \in Serving
  /\ rpc' = [rpc EXCEPT ![o] = "called"]
  /\ UNCHANGED <<storeVars, admVars, body, reply, applied>>

\* An injected error, no such product, a failing or busy database, the end of the
\* context: nothing is written.
HandlerFails(o) ==
  /\ rpc[o] \in Serving
  /\ Finish(o, "error")
  /\ UNCHANGED <<storeVars, admVars, body, applied>>

\* A crash of the checkout takes every call it serves with it.
CallsLost == [o \in Ops |-> IF rpc[o] \in Serving THEN "dead" ELSE rpc[o]]

CheckoutCrash ==
  /\ \E o \in Ops : rpc[o] \in Serving
  /\ rpc' = CallsLost
  /\ UNCHANGED <<storeVars, admVars, body, reply, applied>>

----------------------------------------------------------------------------
OpStep(o) ==
  \/ Find(o) \/ Reject(o) \/ Write(o) \/ WriteFails(o)
  \/ Commit(o) \/ Abort(o) \/ Respond(o)

HandlerStep(o) == LookUp(o) \/ Apply(o) \/ HandlerFails(o)

Next ==
  \/ \E o \in Ops : OpStep(o) \/ HandlerStep(o)
  \/ InventoryCrash
  \/ CheckoutCrash

Spec == Init /\ [][Next]_vars

\* As for orders: a context of 30 seconds on each side ends every wait.
FairSpec == Spec /\ \A o \in Ops : WF_vars(OpStep(o)) /\ WF_vars(HandlerStep(o))

----------------------------------------------------------------------------
(***************************************************************************)
(* Safety                                                                  *)
(***************************************************************************)

\* A product the inventory has, or had, exists in the checkout as well: every
\* commit comes after the one of the checkout.
StockIsInCatalog ==
  \A p \in Products : stock[p].status # "none" => catalog[p].status # "none"

\* The two services disagree about a product of the inventory only after a saga broke:
\* a request that the checkout carried out and the inventory did not, or not yet.
DisagreementHasACause ==
  \A p \in Products :
    \/ stock[p].status = "none"
    \/ Same(p)
    \/ \E o \in applied \ committed : Item(o) = p

\* The write lock of the inventory is held exactly during the call of its holder.
LockIsOwned == \A o \in Ops : invWriter = o <=> adm[o] = "calling"

\* The product is deleted in the checkout only, and no handler has seen it alive.
HalfDeleted(p) ==
  /\ Live(stock[p])
  /\ catalog[p].status = "deleted"
  /\ \A o \in Ops : Item(o) = p =>
       rpc[o] # "found" /\ ~(adm[o] = "calling" /\ reply[o] = "ok")

\* Such a product is frozen: the checkout refuses every later update and every later
\* delete of it, so the inventory sells on what the checkout cannot show.
HalfDeletedForEver ==
  [][\A p \in Products : HalfDeleted(p) => HalfDeleted(p)']_vars

\* A product deleted in the checkout comes back only by a straggler: an update that
\* found it before, and either has outlived its caller or met a delete that has.
RevivedByAStraggler ==
  [][\A p \in Products :
       catalog[p].status = "deleted" /\ Live(catalog'[p]) =>
         \E o \in Ops :
           /\ Item(o) = p /\ Kind(o) = "update" /\ rpc[o] = "found"
           /\ \/ adm[o] \in {"done", "lost"}
              \/ \E d \in applied \ committed : Item(d) = p /\ Kind(d) = "delete"]_vars

\* A change of a product keeps the promise of an order, with the checkout as the one
\* who goes first: applied there, then committed in the inventory, then confirmed;
\* and a 4xx answer is given for nothing that will be applied.
Ledger == INSTANCE OrderLedger
            WITH Requests <- Ops, registered <- applied, placed <- committed,
                 announced <- {}

ImplementsLedger == Ledger!Spec

(***************************************************************************)
(* Liveness                                                                *)
(***************************************************************************)

\* Every request ends, answered or with its process.
EveryOpEnds == \A o \in Ops : <>(adm[o] \in {"done", "lost"})

\* Every handler of the checkout ends, its caller gone or not.
EveryHandlerEnds ==
  \A o \in Ops : rpc[o] = "called" ~> rpc[o] \in {"replied", "dead"}

(***************************************************************************)
(* What the documentation says and the code does not do                    *)
(***************************************************************************)

\* A product that was deleted is gone.
DeletedStaysDeleted ==
  [][\A p \in Products : catalog[p].status = "deleted" => ~Live(catalog'[p])]_vars
=============================================================================
