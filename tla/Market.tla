------------------------------- MODULE Market -------------------------------
(***************************************************************************)
(* The whole shop at work: orders (Orders) and changes of products         *)
(* (Catalog) over the same two databases and the same two write locks.     *)
(*                                                                         *)
(* An order holds the lock of checkout.db and, in the inventory, wants     *)
(* that of inventory.db; a change holds the lock of inventory.db and, in   *)
(* the checkout, wants that of checkout.db.  Each also writes back what it *)
(* read before it had its lock.                                            *)
(***************************************************************************)
EXTENDS Stores

CONSTANTS
  Requests, Quantities, MaxStock,  \* orders, as in Orders
  Ops, Stocks                      \* changes of products, as in Catalog

ASSUME RequestsAssumption == Requests \subseteq Clients
ASSUME QuantitiesAssumption == Quantities \subseteq Nat \ {0}
ASSUME MaxStockAssumption == MaxStock \in Nat
ASSUME OpsAssumption == Ops \subseteq Clients
ASSUME StocksAssumption == Stocks \subseteq Int /\ Stocks # {}
ASSUME ActorsAssumption == Requests \cap Ops = {}

VARIABLES
  want, stage, price, call, snap, reply, registered, placed, announced,
  answer, opening,                 \* of orders
  body, adm, rpc, opReply, applied, committed, opAnswer  \* of changes

orderVars == <<want, stage, price, call, snap, reply, registered, placed,
               announced, answer, opening>>
opVars == <<body, adm, rpc, opReply, applied, committed, opAnswer>>
vars == <<storeVars, orderVars, opVars>>

Orders == INSTANCE Orders
Changes == INSTANCE Catalog WITH reply <- opReply, answer <- opAnswer

Init == Orders!Init /\ Changes!Init

RequestStep(r) == Orders!RequestStep(r) /\ UNCHANGED opVars
RegisterStep(r) == Orders!HandlerStep(r) /\ UNCHANGED opVars
OpStep(o) == Changes!OpStep(o) /\ UNCHANGED orderVars
ApplyStep(o) == Changes!HandlerStep(o) /\ UNCHANGED orderVars

\* The checkout takes its orders with it, and the changes it was asked for.
CheckoutCrash ==
  /\ stage' = Orders!RequestsLost
  /\ rpc' = Changes!CallsLost
  /\ <<stage, rpc>>' # <<stage, rpc>>
  /\ coWriter' = NoOne
  /\ UNCHANGED <<catalog, stock, invWriter, want, price, call, snap, reply,
                 registered, placed, announced, answer, opening, body, adm,
                 opReply, applied, committed, opAnswer>>

\* The inventory takes its changes with it, and the orders it was registering.
InventoryCrash ==
  /\ adm' = Changes!OpsLost
  /\ call' = Orders!CallsLost
  /\ <<adm, call>>' # <<adm, call>>
  /\ invWriter' = NoOne
  /\ UNCHANGED <<catalog, stock, coWriter, want, stage, price, snap, reply,
                 registered, placed, announced, answer, opening, body, rpc,
                 opReply, applied, committed, opAnswer>>

Next ==
  \/ \E r \in Requests : RequestStep(r) \/ RegisterStep(r)
  \/ \E o \in Ops : OpStep(o) \/ ApplyStep(o)
  \/ CheckoutCrash
  \/ InventoryCrash

Spec == Init /\ [][Next]_vars

\* What a wait for a lock or for an answer ends with when its context is done.
TimesOut(r) ==
  Orders!InsertFails(r) \/ Orders!GiveUp(r) \/ Orders!RegisterFails(r)
OpTimesOut(o) ==
  Changes!WriteFails(o) \/ Changes!Abort(o) \/ Changes!HandlerFails(o)

\* Mutant: the contexts have no deadline.
FairnessWithoutDeadlines ==
  /\ \A r \in Requests : /\ WF_vars(RequestStep(r) /\ ~TimesOut(r))
                         /\ WF_vars(RegisterStep(r) /\ ~TimesOut(r))
  /\ \A o \in Ops : /\ WF_vars(OpStep(o) /\ ~OpTimesOut(o))
                    /\ WF_vars(ApplyStep(o) /\ ~OpTimesOut(o))

(***************************************************************************)
(* The scheduler runs every goroutine, and a context of 1 minute (an order *)
(* in the checkout) or 30 seconds (everything else) ends its every wait,   *)
(* so that a handler that has not ended can always take a step.            *)
(***************************************************************************)
Fairness ==
  /\ \A r \in Requests : WF_vars(RequestStep(r)) /\ WF_vars(RegisterStep(r))
  /\ \A o \in Ops : WF_vars(OpStep(o)) /\ WF_vars(ApplyStep(o))

FairSpec == Spec /\ Fairness

----------------------------------------------------------------------------
(***************************************************************************)
(* Safety                                                                  *)
(***************************************************************************)

\* The two services disagree about a product the inventory has only through a change
\* that the checkout carried out and the inventory did not (yet), or because an order
\* that overlapped a committed change wrote the price it had read before it
\* (tx.Updates writes the whole row back).
DriftHasACause ==
  \A p \in Products :
    \/ stock[p].status = "none"
    \/ Changes!Same(p)
    \/ \E o \in applied \ committed : Changes!Item(o) = p
    \/ /\ stock[p].status = catalog[p].status
       /\ \E r \in registered, o \in committed :
            /\ Orders!Item(r) = p /\ Changes!Item(o) = p
            /\ stock[p].price = snap[r].price

\* Orders and changes that overwrite each other's row still never leave a negative
\* stock on sale, as long as no administrator sets one.
NoNegativeStock == Stocks \subseteq Nat => Orders!NoNegativeStock

\* The flag of a product that has sold agrees with its stock, whoever wrote the row
\* last: a registration from a stale copy, an update, or an update over a deletion.
FlagTracksStock == Orders!FlagTracksStock

\* Each of the two write locks belongs to the one transaction that is open on its file,
\* an order's or a change's, and no failure of either leaks it to the other.
LocksAreOwned == Orders!LocksAreOwned /\ Changes!LockIsOwned

----------------------------------------------------------------------------
(***************************************************************************)
(* Liveness                                                                *)
(***************************************************************************)

\* Orders and changes all end, though they wait for each other's locks.
EveryRequestEnds == Orders!EveryRequestEnds /\ Changes!EveryOpEnds

\* So does every gRPC handler, its caller gone or not.
EveryHandlerEnds == Orders!EveryHandlerEnds /\ Changes!EveryHandlerEnds

\* An order and a change that wait for each other's lock: neither handler can go on
\* but by a time-out.
CircularWait(r, o) ==
  /\ coWriter = r /\ call[r] = "checked"
  /\ invWriter = o /\ rpc[o] = IF Changes!Kind(o) = "create" THEN "called" ELSE "found"

\* Such a deadlock is broken by the contexts, every time it comes about.
CircularWaitEnds ==
  \A r \in Requests, o \in Ops : CircularWait(r, o) ~> ~CircularWait(r, o)

\* Both databases become writable again and again.
LocksComeFree == Orders!LocksComeFree
=============================================================================
