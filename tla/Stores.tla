------------------------------- MODULE Stores -------------------------------
(***************************************************************************)
(* The two SQLite files of the shop.                                       *)
(*                                                                         *)
(* checkout-service keeps its own copy of a product (name, price) in       *)
(* product_models of data/checkout.db; inventory-service keeps the stock   *)
(* (available_quantity, out_of_stock) in product_models of                 *)
(* data/inventory.db.  A row is named by the SID both services share.      *)
(*                                                                         *)
(* SQLite admits one writing transaction per file.  The transaction takes  *)
(* the write lock with its first write and keeps it until it commits or    *)
(* rolls back; readers go on seeing the committed rows.                    *)
(***************************************************************************)
EXTENDS Integers

CONSTANTS
  Products,    \* product SIDs
  Prices,      \* prices a product may have
  Clients,     \* whoever may hold a write lock
  NoOne,       \* the lock is free
  Int32Max     \* greatest int32 of the messages in proto/

\* The Go conversion int32(n) of an int.
ToInt32(n) == ((n + Int32Max + 1) % (2 * Int32Max + 2)) - (Int32Max + 1)

ASSUME NoOneAssumption == NoOne \notin Clients
ASSUME PricesAssumption ==
  /\ Prices \subseteq Int /\ Prices # {}
  /\ \A x \in Prices : ToInt32(x) \in Prices
ASSUME Int32Assumption == Int32Max \in Nat

VARIABLES
  catalog,     \* product_models of data/checkout.db
  stock,       \* product_models of data/inventory.db
  coWriter,    \* holder of the write lock of data/checkout.db
  invWriter    \* holder of the write lock of data/inventory.db

storeVars == <<catalog, stock, coWriter, invWriter>>

\* "deleted" is a row whose deleted_at is set: no query of the services sees it.
RowStatus == {"none", "live", "deleted"}

CatalogRow == [status : RowStatus, price : Prices]
StockRow == [status : RowStatus, price : Prices, avail : Int, oos : BOOLEAN]

StoresTypeOK ==
  /\ catalog \in [Products -> CatalogRow]
  /\ stock \in [Products -> StockRow]
  /\ coWriter \in Clients \cup {NoOne}
  /\ invWriter \in Clients \cup {NoOne}

Live(row) == row.status = "live"
=============================================================================
