----------------------------- MODULE OrderLedger -----------------------------
(***************************************************************************)
(* What the two services promise about an order, without the stages, the   *)
(* locks and the messages: the stock ledger of inventory-service records   *)
(* the order first, then checkout-service places it, then it is announced  *)
(* for invoicing, and the client is told once, truthfully.                 *)
(*                                                                         *)
(* A change of a product keeps the same promise with the services in each  *)
(* other's place (Catalog.tla): checkout-service applies it first.         *)
(***************************************************************************)
CONSTANT Requests

VARIABLES
  registered,  \* orders in order_models of the inventory
  placed,      \* orders in order_models of the checkout
  announced,   \* orders published for invoicing
  answer       \* what the client of each order was told

ledgerVars == <<registered, placed, announced, answer>>

Failures == {"client_error", "unavailable", "server_error"}

LedgerTypeOK ==
  /\ registered \subseteq Requests
  /\ placed \subseteq Requests
  /\ announced \subseteq Requests
  /\ answer \in [Requests -> Failures \cup {"none", "ok"}]

Init ==
  /\ registered = {}
  /\ placed = {}
  /\ announced = {}
  /\ answer = [r \in Requests |-> "none"]

\* A 4xx answer is final: the stock ledger never records that order.
Register(r) ==
  /\ r \notin registered
  /\ answer[r] # "client_error"
  /\ registered' = registered \cup {r}
  /\ UNCHANGED <<placed, announced, answer>>

Place(r) ==
  /\ r \in registered \ placed
  /\ answer[r] = "none"
  /\ placed' = placed \cup {r}
  /\ UNCHANGED <<registered, announced, answer>>

Announce(r) ==
  /\ r \in placed \ announced
  /\ answer[r] = "none"
  /\ announced' = announced \cup {r}
  /\ UNCHANGED <<registered, placed, answer>>

Confirm(r) ==
  /\ r \in placed
  /\ answer[r] = "none"
  /\ answer' = [answer EXCEPT ![r] = "ok"]
  /\ UNCHANGED <<registered, placed, announced>>

Refuse(r, a) ==
  /\ r \notin placed
  /\ answer[r] = "none"
  /\ a = "client_error" => r \notin registered
  /\ answer' = [answer EXCEPT ![r] = a]
  /\ UNCHANGED <<registered, placed, announced>>

Next ==
  \E r \in Requests :
    \/ Register(r)
    \/ Place(r)
    \/ Announce(r)
    \/ Confirm(r)
    \/ \E a \in Failures : Refuse(r, a)

Spec == Init /\ [][Next]_ledgerVars
=============================================================================
