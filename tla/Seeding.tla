------------------------------ MODULE Seeding ------------------------------
(***************************************************************************)
(* How products come into the two databases: RunSeed, with which every     *)
(* start of inventory-service begins, and CreateProduct.  Both insert into *)
(* inventory.db in a transaction and, before it commits, have the checkout *)
(* insert the same products, one AddNewProduct each, committed at once.    *)
(*                                                                         *)
(* A table is the sequence of the SIDs inserted: the position of a SID is  *)
(* the id of its row (AUTOINCREMENT), which the two HTTP APIs know it by.  *)
(***************************************************************************)
EXTENDS Integers, Sequences

CONSTANTS
  Batch,       \* products of a seed: 10
  MaxStarts,   \* bound on the starts of inventory-service
  MaxDrawn     \* bound on the SIDs drawn

ASSUME BatchAssumption == Batch \in Nat \ {0}

VARIABLES
  starts,      \* starts of inventory-service so far
  phase,       \* what it does
  drawn,       \* SIDs handed out so far: 1 .. drawn
  batch,       \* products its open transaction inserts
  added,       \* how many of them the checkout has confirmed
  call,        \* the AddNewProduct for the next one, as its caller sees it
  handlers,    \* products whose AddNewProduct the checkout works on
  inv,         \* product_models of the inventory
  deleted,     \* products that are soft-deleted
  co           \* product_models of the checkout

invVars == <<starts, phase, drawn, batch, added, inv, deleted>>
vars == <<invVars, call, handlers, co>>

Elems(s) == {s[i] : i \in DOMAIN s}
Open == {"seeding", "creating"}

TypeOK ==
  /\ starts \in Nat
  /\ phase \in {"down", "serving"} \cup Open
  /\ drawn \in Nat
  /\ batch \in Seq(1 .. drawn)
  /\ added \in 0 .. Len(batch)
  /\ call \in {"none", "called", "ok", "error"}
  /\ handlers \subseteq 1 .. drawn
  /\ inv \in Seq(1 .. drawn)
  /\ deleted \subseteq Elems(inv)
  /\ co \in Seq(1 .. drawn)

Init ==
  /\ starts = 0
  /\ phase = "down"
  /\ drawn = 0
  /\ batch = <<>>
  /\ added = 0
  /\ call = "none"
  /\ handlers = {}
  /\ inv = <<>>
  /\ deleted = {}
  /\ co = <<>>

----------------------------------------------------------------------------
(***************************************************************************)
(* inventory-service                                                       *)
(***************************************************************************)

\* A transaction over n new products, each with a ULID nobody has drawn before.
Begin(n) ==
  /\ drawn + n <= MaxDrawn
  /\ drawn' = drawn + n
  /\ batch' = [i \in 1 .. n |-> drawn + i]

\* Mutant: the count of the confirmed is not reset.
EndKeepsCount ==
  /\ batch' = <<>>
  /\ call' = "none"
  /\ UNCHANGED added

End ==
  /\ batch' = <<>>
  /\ added' = 0
  /\ call' = "none"

\* The seed counts the rows that are not deleted, and finds the shop empty or not;
\* a start that fails before that counts for nothing.
Start ==
  /\ phase = "down"
  /\ starts < MaxStarts
  /\ starts' = starts + 1
  /\ \/ /\ Elems(inv) \subseteq deleted
        /\ Begin(Batch)
        /\ phase' = "seeding"
     \/ /\ ~(Elems(inv) \subseteq deleted)
        /\ phase' = "serving"
        /\ UNCHANGED <<drawn, batch>>
  /\ UNCHANGED <<added, inv, deleted, call, handlers, co>>

\* POST /products; the write lock admits one such transaction at a time.
CreateProduct ==
  /\ phase = "serving"
  /\ Begin(1)
  /\ phase' = "creating"
  /\ UNCHANGED <<starts, added, inv, deleted, call, handlers, co>>

Call ==
  /\ phase \in Open
  /\ call = "none"
  /\ added < Len(batch)
  /\ call' = "called"
  /\ handlers' = handlers \cup {batch[added + 1]}
  /\ UNCHANGED <<invVars, co>>

\* Mutant: an error is logged, and the next product is tried.
ConfirmedOrLogged ==
  /\ phase \in Open
  /\ call \in {"ok", "error"}
  /\ added' = added + 1
  /\ call' = "none"
  /\ UNCHANGED <<starts, phase, drawn, batch, inv, deleted, handlers, co>>

\* Mutant: each product is inserted by a transaction of its own.
ConfirmedAlone ==
  /\ phase \in Open
  /\ call = "ok"
  /\ added' = added + 1
  /\ call' = "none"
  /\ inv' = Append(inv, batch[added + 1])
  /\ UNCHANGED <<starts, phase, drawn, batch, deleted, handlers, co>>

\* Every other outcome of the call is an error that rolls back.  RunSeed would only log an
\* error that carries no gRPC status, but the generated client returns none of these.
Confirmed ==
  /\ phase \in Open
  /\ call = "ok"
  /\ added' = added + 1
  /\ call' = "none"
  /\ UNCHANGED <<starts, phase, drawn, batch, inv, deleted, handlers, co>>

Commit ==
  /\ phase \in Open
  /\ added = Len(batch)
  /\ inv' = inv \o batch
  /\ phase' = "serving"
  /\ End
  /\ UNCHANGED <<starts, drawn, deleted, handlers, co>>

\* The connection breaks, whether the handler has answered, still works or is gone.
Disconnect ==
  /\ phase \in Open
  /\ call = "called"
  /\ call' = "error"
  /\ UNCHANGED <<invVars, handlers, co>>

\* Mutant: a product that was refused is sent again.
RollbackNever ==
  /\ phase \in Open
  /\ call = "error"
  /\ call' = "none"
  /\ UNCHANGED <<invVars, handlers, co>>

\* An error of the call or of the commit and, for a creation only, the end of its
\* context roll the transaction back.  A seed that fails ends the process
\* (LogFatallnf), to be started again.
Rollback ==
  /\ phase \in Open
  /\ call = "error" \/ added = Len(batch) \/ phase = "creating"
  /\ phase' = IF phase = "seeding" THEN "down" ELSE "serving"
  /\ End
  /\ UNCHANGED <<starts, drawn, inv, deleted, handlers, co>>

\* Deleting a product, see Catalog.
DeleteProduct(s) ==
  /\ phase = "serving"
  /\ s \in Elems(inv) \ deleted
  /\ deleted' = deleted \cup {s}
  /\ UNCHANGED <<starts, phase, drawn, batch, added, inv, call, handlers, co>>

Crash ==
  /\ phase # "down"
  /\ phase' = "down"
  /\ End
  /\ UNCHANGED <<starts, drawn, inv, deleted, handlers, co>>

----------------------------------------------------------------------------
(***************************************************************************)
(* checkout-service                                                        *)
(***************************************************************************)

\* The reply may be lost with the connection, and nobody may wait for it any more.
Reply(s, r) ==
  /\ handlers' = handlers \ {s}
  /\ \/ call' = call
     \/ call = "called" /\ batch[added + 1] = s /\ call' = r

\* Also when the one who asked for it has given up or died.  A SID is unique.
AddNewProduct(s) ==
  /\ s \in handlers
  /\ s \notin Elems(co)
  /\ co' = Append(co, s)
  /\ Reply(s, "ok")
  /\ UNCHANGED invVars

\* An injected error, a failing or busy database, the end of its context.
AddFails(s) ==
  /\ s \in handlers
  /\ Reply(s, "error")
  /\ UNCHANGED <<invVars, co>>

CheckoutCrash ==
  /\ handlers # {}
  /\ handlers' = {}
  /\ UNCHANGED <<invVars, call, co>>

----------------------------------------------------------------------------
Work == Call \/ Confirmed \/ Commit \/ Rollback

HandlerStep(s) == AddNewProduct(s) \/ AddFails(s)

Next ==
  \/ Start \/ CreateProduct \/ Work \/ Disconnect \/ Crash \/ CheckoutCrash
  \/ \E s \in 1 .. drawn : DeleteProduct(s) \/ HandlerStep(s)

Spec == Init /\ [][Next]_vars

(***************************************************************************)
(* The seed runs under context.Background(), without a deadline: what ends *)
(* its calls is the context of 30 seconds in the checkout, or a connection *)
(* that breaks when the handler is gone.                                   *)
(***************************************************************************)
Fairness ==
  /\ WF_vars(Work)
  /\ WF_vars(Disconnect /\ batch[added + 1] \notin handlers)
  /\ \A s \in 1 .. MaxDrawn : WF_vars(HandlerStep(s))

FairSpec == Spec /\ Fairness

----------------------------------------------------------------------------
\* The products of the inventory are in the checkout, in the same order: the id of a
\* product there is its id in the inventory, moved up by the leftovers of failed seeds
\* and creations before it, and never another way.
SameOrder ==
  \A i, j \in DOMAIN inv : i <= j =>
    \E k, l \in DOMAIN co :
      k <= l /\ i <= k /\ j - i <= l - k /\ co[k] = inv[i] /\ co[l] = inv[j]

\* A shop that serves was seeded as a whole once, however many starts were cut short.
ServesWhatItSeeded == phase \in {"serving", "creating"} => Len(inv) >= Batch

\* A start does not hang in its seed.
StartsEnd == phase = "seeding" ~> phase # "seeding"
=============================================================================
