--------------------------- MODULE InvoiceProofs ---------------------------
(***************************************************************************)
(* Proofs about Invoice, for any width of the id field and any number of   *)
(* orders and rows.                                                        *)
(***************************************************************************)
EXTENDS Invoice, TLAPS

\* Every value of a uint8_t field is in its range.
LEMMA ToByteType ==
  /\ \A n \in Nat : ToByte(n) \in 0 .. Byte - 1
  /\ \A n \in Nat : n < Byte => ToByte(n) = n
BY ByteAssumption DEF ToByte

LEMMA NewRowType ==
  ASSUME TypeOK, lastId < MaxRows, NEW o \in Orders, NEW by \in {"http", "redis"}
  PROVE  NewRow(o, by) \in Row /\ NewRow(o, by).id = lastId + 1
BY MaxRowsAssumption DEF TypeOK, NewRow, Row

LEMMA TypeStep == TypeOK /\ [Next]_vars => TypeOK'
<1> SUFFICES ASSUME TypeOK, [Next]_vars PROVE TypeOK'
  OBVIOUS
<1> USE DEF TypeOK, Steps, vars, loopVars, diskVars
<1>1. ASSUME NEW m \in Message, Publish(m) PROVE TypeOK'
  <2>1. sends' \in [Message -> 0 .. MaxSends]
    BY <1>1, MaxSendsAssumption DEF Publish
  <2>2. inbox' \in Seq(Message)
    BY <1>1 DEF Publish
  <2> QED BY <1>1, <2>1, <2>2 DEF Publish
<1>2. CASE Subscribe
  BY <1>2 DEF Subscribe
<1>3. CASE Disconnect
  BY <1>3 DEF Disconnect
<1>4. CASE Receive
  <2>1. Head(inbox) \in Message /\ inbox' \in Seq(Message)
    BY <1>4 DEF Receive
  <2>2. Head(inbox).order \in Orders /\ Head(inbox).total \in Nat
    BY <2>1, TotalsAssumption DEF Message
  <2>3. ToByte(Head(inbox).total) \in 0 .. Byte - 1 /\ 0 \in 0 .. Byte - 1
    BY <2>2, ToByteType, ByteAssumption
  <2>4. inv' \in Model /\ step' \in Steps
    BY <1>4, <2>2, <2>3 DEF Receive, Model
  <2> QED BY <1>4, <2>1, <2>4 DEF Receive
<1>5. CASE StoreRow
  <2>0. lastId \in Nat /\ lastId + 1 \in Nat /\ lastId + 1 \in 0 .. MaxRows
    BY <1>5, MaxRowsAssumption DEF StoreRow
  <2>1. inv.order \in Orders /\ ToByte(lastId + 1) \in 0 .. Byte - 1
    <3>1. inv.order \in Orders
      BY DEF Model
    <3>2. ToByte(lastId + 1) \in 0 .. Byte - 1
      BY <2>0, ToByteType
    <3> QED BY <3>1, <3>2
  <2>2. NewRow(inv.order, "redis") \in Row
    BY <1>5, <2>1, NewRowType DEF StoreRow
  <2>3. inv' \in Model
    BY <1>5, <2>1 DEF StoreRow, Model
  <2> QED BY <1>5, <2>0, <2>2, <2>3 DEF StoreRow
<1>6. CASE StoreFails
  BY <1>6 DEF StoreFails
<1>7. CASE PrintPdf
  BY <1>7 DEF PrintPdf, Model
<1>8. CASE PrintFails
  BY <1>8 DEF PrintFails
<1>9. CASE Rollback
  BY <1>9 DEF Rollback
<1>10. ASSUME NEW o \in Orders, HttpCreate(o) PROVE TypeOK'
  <2>1. NewRow(o, "http") \in Row
    BY <1>10, NewRowType DEF HttpCreate
  <2>2. lastId' \in 0 .. MaxRows
    BY <1>10, MaxRowsAssumption DEF HttpCreate
  <2>3. rows' \subseteq Row
    BY <1>10, <2>1 DEF HttpCreate
  <2> QED BY <1>10, <2>2, <2>3 DEF HttpCreate
<1>11. ASSUME NEW o \in Orders, HttpGen(o) PROVE TypeOK'
  BY <1>11, ByteAssumption DEF HttpGen
<1>12. CASE Crash
  <2>1. inbox' \in Seq(Message)
    BY <1>12 DEF Crash
  <2> QED BY <1>12, <2>1 DEF Crash
<1>13. CASE Restart
  BY <1>13 DEF Restart
<1>14. CASE UNCHANGED vars
  BY <1>14
<1> QED
  BY <1>1, <1>2, <1>3, <1>4, <1>5, <1>6, <1>7, <1>8, <1>9, <1>10, <1>11,
     <1>12, <1>13, <1>14 DEF Next, Callback

\* The service keeps its types: no id or amount leaves its uint8_t.
THEOREM InvoiceTypeCorrect == Spec => []TypeOK
<1>1. Init => TypeOK
  BY ByteAssumption, MaxRowsAssumption, MaxSendsAssumption
     DEF Init, TypeOK, Model, Steps
<1> QED BY <1>1, TypeStep, PTL DEF Spec

----------------------------------------------------------------------------
(***************************************************************************)
(* The inductive invariant: ids in use have been handed out, and while the *)
(* callback is past its INSERT the last id handed out is the one of its    *)
(* own row and of no other.  The second part is what the single thread     *)
(* buys: no HTTP request inserts a row between the INSERT of the callback  *)
(* and its rollback.                                                       *)
(***************************************************************************)
IdsIssued == \A row \in rows : row.id <= lastId

OwnRowIsLast ==
  step \in {"stored", "printed"} =>
    /\ inv.id = ToByte(lastId)
    /\ \E row \in rows : row.id = lastId
    /\ \A row \in rows : row.id = lastId => row.order = inv.order /\ row.by = "redis"

RowsInv == IdsIssued /\ OwnRowIsLast

LEMMA RowsStep == TypeOK /\ RowsInv /\ [Next]_vars => RowsInv'
<1> SUFFICES ASSUME TypeOK, RowsInv, [Next]_vars PROVE RowsInv'
  OBVIOUS
<1> USE DEF RowsInv, IdsIssued, OwnRowIsLast, vars, loopVars, diskVars
<1>0. /\ lastId \in Nat
      /\ \A row \in rows : row.id \in Nat
  BY MaxRowsAssumption DEF TypeOK, Row
<1>1. CASE UNCHANGED <<rows, lastId>> /\ step' \notin {"stored", "printed"}
  BY <1>1
<1>2. CASE StoreRow
  <2> DEFINE new == NewRow(inv.order, "redis")
  <2>1. new.id = lastId + 1 /\ new.order = inv.order /\ new.by = "redis"
    BY DEF NewRow
  <2>2. /\ rows' = rows \cup {new}
        /\ lastId' = lastId + 1
        /\ inv'.id = ToByte(lastId + 1) /\ inv'.order = inv.order
    BY <1>2 DEF StoreRow, TypeOK, Model
  <2> HIDE DEF new
  <2>3. \A row \in rows : row.id # lastId + 1
    BY <1>0
  <2>4. IdsIssued'
    BY <1>0, <2>1, <2>2
  <2>5. OwnRowIsLast'
    BY <2>1, <2>2, <2>3
  <2> QED BY <2>4, <2>5
<1>3. CASE PrintPdf
  BY <1>3 DEF PrintPdf
<1>4. CASE Rollback
  BY <1>4 DEF Rollback
<1>5. ASSUME NEW o \in Orders, HttpCreate(o) PROVE RowsInv'
  <2> DEFINE new == NewRow(o, "http")
  <2>1. new.id = lastId + 1
    BY DEF NewRow
  <2>2. rows' = rows \cup {new} /\ lastId' = lastId + 1 /\ step' = "idle"
    BY <1>5 DEF HttpCreate
  <2> HIDE DEF new
  <2> QED BY <1>0, <2>1, <2>2
<1>6. ASSUME NEW m \in Message, Publish(m) PROVE RowsInv'
  BY <1>6 DEF Publish
<1>7. CASE UNCHANGED vars
  BY <1>7
<1>8. ASSUME NEW o \in Orders, HttpGen(o) PROVE RowsInv'
  BY <1>8 DEF HttpGen
<1>9. CASE Subscribe \/ Disconnect \/ Receive \/ StoreFails \/ PrintFails \/ Crash
  BY <1>1, <1>9
     DEF Subscribe, Disconnect, Receive, StoreFails, PrintFails, Crash
<1>10. CASE Restart
  BY <1>10 DEF Restart
<1> QED
  BY <1>2, <1>3, <1>4, <1>5, <1>6, <1>7, <1>8, <1>9, <1>10 DEF Next, Callback

LEMMA RowsCorrect == Spec => [](TypeOK /\ RowsInv)
<1>1. Init => RowsInv
  BY DEF Init, RowsInv, IdsIssued, OwnRowIsLast
<1> QED BY <1>1, InvoiceTypeCorrect, RowsStep, PTL DEF Spec

\* Only the rollback takes a row out of the table.
LEMMA OnlyRollbackDeletes ==
  ASSUME Next, ~Rollback
  PROVE  rows \subseteq rows'
BY DEF Next, Callback, Publish, Subscribe, Disconnect, Receive, StoreRow,
       StoreFails, PrintPdf, PrintFails, HttpCreate, HttpGen, Crash, Restart,
       diskVars

\* Until the ids outgrow their field, a rollback deletes exactly the row its own
\* message has stored (DeletesOwnRowWhileIdsFit): what the comment of
\* db_create_invoice promises, for any width of the field.
THEOREM RollbackDeletesItsOwn == Spec => DeletesOwnRowWhileIdsFit
<1>1. TypeOK /\ RowsInv /\ [Next]_vars =>
        [lastId < Byte =>
           \A row \in rows \ rows' :
             row.id = lastId /\ row.order = inv.order /\ row.by = "redis"]_vars
  <2> SUFFICES ASSUME TypeOK, RowsInv, Next, lastId < Byte, NEW row \in rows \ rows'
               PROVE  row.id = lastId /\ row.order = inv.order /\ row.by = "redis"
    OBVIOUS
  <2>1. Rollback
    BY OnlyRollbackDeletes
  <2>2. row.id = inv.id
    BY <2>1 DEF Rollback, Deleted
  <2>3. inv.id = lastId
    BY <2>1, ToByteType, MaxRowsAssumption DEF Rollback, RowsInv, OwnRowIsLast, TypeOK
  <2> QED BY <2>1, <2>2, <2>3 DEF Rollback, RowsInv, OwnRowIsLast
<1> QED BY <1>1, RowsCorrect, PTL DEF Spec, DeletesOwnRowWhileIdsFit

\* The callback prints only what it has stored (PrintedIsStored).
THEOREM PrintsAreStored == Spec => []PrintedIsStored
<1>1. RowsInv => PrintedIsStored
  BY DEF RowsInv, OwnRowIsLast, PrintedIsStored
<1> QED BY <1>1, RowsCorrect, PTL

----------------------------------------------------------------------------
(***************************************************************************)
(* What the PDFs show.  The inductive invariant follows an amount from its *)
(* message to the file: all that waits in the queue has been published,    *)
(* the model of a callback under way holds the amount of a message of its  *)
(* order, and an order has one message, however often it is sent.          *)
(***************************************************************************)
OneMessagePerOrder ==
  \A x, y \in Message : sends[x] > 0 /\ sends[y] > 0 /\ x.order = y.order => x = y

QueuedIsSent == \A i \in 1 .. Len(inbox) : sends[inbox[i]] > 0

ModelIsOfItsOrder == step # "idle" => IsAmountOf(inv.order, inv.total)

PdfInv == OneMessagePerOrder /\ QueuedIsSent /\ ModelIsOfItsOrder /\ PdfShowsItsOrder

\* What has been published stays published.
LEMMA SendsGrow ==
  ASSUME TypeOK, [Next]_vars
  PROVE  \A m \in Message : sends[m] > 0 => sends'[m] > 0
<1>1. ASSUME NEW x \in Message, Publish(x)
      PROVE  \A m \in Message : sends[m] > 0 => sends'[m] > 0
  BY <1>1, MaxSendsAssumption DEF Publish, TypeOK
<1>2. ASSUME UNCHANGED sends
      PROVE  \A m \in Message : sends[m] > 0 => sends'[m] > 0
  BY <1>2
<1> QED
  BY <1>1, <1>2 DEF Next, Callback, Subscribe, Disconnect, Receive, StoreRow,
     StoreFails, PrintPdf, PrintFails, Rollback, HttpCreate, HttpGen, Crash, Restart,
     vars

\* So the amount of an order stays an amount of the order.
LEMMA AmountsStay ==
  ASSUME TypeOK, [Next]_vars, NEW o, NEW amount, IsAmountOf(o, amount)
  PROVE  \E m \in Message : sends'[m] > 0 /\ m.order = o /\ amount = ToByte(m.total)
BY SendsGrow DEF IsAmountOf

\* A callback under way goes on with the model it has: only Receive fills it from a
\* message, and StoreRow changes no more than its id.
LEMMA ModelKept ==
  ASSUME TypeOK, [Next]_vars, ~Receive, step' # "idle"
  PROVE  step # "idle" /\ inv'.order = inv.order /\ inv'.total = inv.total
BY DEF TypeOK, Model, Next, Callback, Publish, Subscribe, Disconnect, StoreRow,
       StoreFails, PrintPdf, PrintFails, Rollback, HttpCreate, HttpGen, Crash,
       Restart, vars, loopVars, diskVars

\* Only the callback prints an amount, that of its model; HTTP prints none.
LEMMA PdfsKept ==
  ASSUME TypeOK, [Next]_vars, NEW o \in Orders, pdfs'[o] # pdfs[o]
  PROVE  pdfs'[o] = 0 \/ (PrintPdf /\ o = inv.order /\ pdfs'[o] = inv.total)
<1>1. CASE PrintPdf
  BY <1>1 DEF PrintPdf, TypeOK
<1>2. ASSUME NEW x \in Orders, HttpGen(x) PROVE pdfs'[o] = 0
  BY <1>2 DEF HttpGen, TypeOK
<1>3. CASE UNCHANGED pdfs
  BY <1>3
<1> QED
  BY <1>1, <1>2, <1>3 DEF Next, Callback, Publish, Subscribe, Disconnect, Receive,
     StoreRow, StoreFails, PrintFails, Rollback, HttpCreate, Crash, Restart, vars,
     loopVars, diskVars

LEMMA PdfStep == TypeOK /\ PdfInv /\ [Next]_vars => PdfInv'
<1> SUFFICES ASSUME TypeOK, PdfInv, [Next]_vars PROVE PdfInv'
  OBVIOUS
<1> USE DEF PdfInv
<1>1. OneMessagePerOrder'
  <2>1. ASSUME NEW m \in Message, Publish(m) PROVE OneMessagePerOrder'
    <3>1. \A x \in Message : x # m => sends'[x] = sends[x]
      BY <2>1 DEF Publish, TypeOK
    <3>2. \A x \in Message : x.order = m.order /\ sends[x] > 0 => x = m
      BY <2>1 DEF Publish
    <3> QED BY <3>1, <3>2 DEF OneMessagePerOrder
  <2>2. CASE UNCHANGED sends
    BY <2>2 DEF OneMessagePerOrder
  <2> QED
    BY <2>1, <2>2 DEF Next, Callback, Subscribe, Disconnect, Receive, StoreRow,
       StoreFails, PrintPdf, PrintFails, Rollback, HttpCreate, HttpGen, Crash,
       Restart, vars
<1>2. QueuedIsSent'
  <2>0. /\ inbox \in Seq(Message)
        /\ \A i \in 1 .. Len(inbox) : inbox[i] \in Message
    BY DEF TypeOK
  <2>1. ASSUME NEW m \in Message, Publish(m), conn = "subscribed" PROVE QueuedIsSent'
    <3>1. inbox' = Append(inbox, m) /\ sends'[m] > 0
      BY <2>1, MaxSendsAssumption DEF Publish, TypeOK
    <3> QED BY <2>0, <3>1, SendsGrow DEF QueuedIsSent
  <2>2. CASE Receive
    <3>1. inbox' = Tail(inbox) /\ sends' = sends /\ inbox # <<>>
      BY <2>2 DEF Receive
    <3>2. \A i \in 1 .. Len(inbox') : inbox'[i] = inbox[i + 1] /\ i + 1 \in 1 .. Len(inbox)
      BY <2>0, <3>1
    <3> QED BY <3>1, <3>2 DEF QueuedIsSent
  <2>3. CASE inbox' = inbox
    BY <2>0, <2>3, SendsGrow DEF QueuedIsSent
  <2>4. CASE inbox' = <<>>
    BY <2>4 DEF QueuedIsSent
  <2> QED
    BY <2>1, <2>2, <2>3, <2>4 DEF Next, Callback, Publish, Subscribe, Disconnect,
       StoreRow, StoreFails, PrintPdf, PrintFails, Rollback, HttpCreate, HttpGen,
       Crash, Restart, vars, loopVars
<1>3. ModelIsOfItsOrder'
  <2>1. CASE Receive
    <3>1. Head(inbox) \in Message /\ sends[Head(inbox)] > 0
      BY <2>1 DEF Receive, TypeOK, QueuedIsSent
    <3>2. CASE Parses(Head(inbox))
      <4>1. /\ inv'.order = Head(inbox).order
            /\ inv'.total = ToByte(Head(inbox).total)
            /\ sends' = sends
        BY <2>1, <3>2 DEF Receive
      <4> QED BY <3>1, <4>1 DEF ModelIsOfItsOrder, IsAmountOf, ToByte
    <3>3. CASE ~Parses(Head(inbox))
      BY <2>1, <3>3 DEF Receive, ModelIsOfItsOrder
    <3> QED BY <3>2, <3>3
  <2>2. ASSUME ~Receive, step' # "idle" PROVE IsAmountOf(inv.order, inv.total)'
    <3>1. step # "idle" /\ inv'.order = inv.order /\ inv'.total = inv.total
      BY <2>2, ModelKept
    <3>2. IsAmountOf(inv.order, inv.total)
      BY <3>1 DEF ModelIsOfItsOrder
    <3> QED BY <3>1, <3>2, AmountsStay DEF IsAmountOf, ToByte
  <2> QED BY <2>1, <2>2 DEF ModelIsOfItsOrder
<1>4. PdfShowsItsOrder'
  <2> SUFFICES ASSUME NEW o \in Orders, pdfs'[o] > 0
               PROVE  \E m \in Message : /\ sends'[m] > 0
                                         /\ m.order = o
                                         /\ pdfs'[o] = ToByte(m.total)
    BY DEF PdfShowsItsOrder, IsAmountOf, ToByte
  <2>1. IsAmountOf(o, pdfs'[o])
    <3>1. CASE pdfs'[o] = pdfs[o]
      BY <3>1 DEF PdfShowsItsOrder
    <3>2. CASE pdfs'[o] # pdfs[o]
      <4>1. PrintPdf /\ o = inv.order /\ pdfs'[o] = inv.total
        BY <3>2, PdfsKept
      <4> QED BY <4>1 DEF PrintPdf, ModelIsOfItsOrder
    <3> QED BY <3>1, <3>2
  <2> QED BY <2>1, AmountsStay
<1> QED BY <1>1, <1>2, <1>3, <1>4

LEMMA PdfCorrect == Spec => [](TypeOK /\ PdfInv)
<1>1. Init => PdfInv
  BY DEF Init, PdfInv, OneMessagePerOrder, QueuedIsSent, ModelIsOfItsOrder,
         PdfShowsItsOrder, NoPdf
<1> QED BY <1>1, InvoiceTypeCorrect, PdfStep, PTL DEF Spec

\* A PDF shows no amount but that of its own order (PdfShowsItsOrder), however messages
\* are repeated, refused or abandoned and whatever the width of the field.
THEOREM PdfsShowTheirOrders == Spec => []PdfShowsItsOrder
BY PdfCorrect, PTL DEF PdfInv

\* A message that arrives again prints the amount that is there, unless HTTP has printed
\* over it (RedeliveryPrintsTheSame): handling a message is idempotent for the file,
\* though each arrival stores a row of its own.
THEOREM PrintingIsIdempotent == Spec => RedeliveryPrintsTheSame
<1>1. TypeOK /\ PdfInv /\ [Next]_vars =>
        [\A o \in Orders : pdfs[o] > 0 => pdfs'[o] \in {pdfs[o], 0}]_vars
  <2> SUFFICES ASSUME TypeOK, PdfInv, Next, NEW o \in Orders, pdfs[o] > 0,
                      pdfs'[o] # pdfs[o], pdfs'[o] # 0
               PROVE  FALSE
    OBVIOUS
  <2>1. PrintPdf /\ o = inv.order /\ pdfs'[o] = inv.total
    BY PdfsKept
  <2>2. PICK x \in Message : sends[x] > 0 /\ x.order = o /\ pdfs[o] = ToByte(x.total)
    BY DEF PdfInv, PdfShowsItsOrder, IsAmountOf
  <2>3. PICK y \in Message : sends[y] > 0 /\ y.order = o /\ inv.total = ToByte(y.total)
    BY <2>1 DEF PrintPdf, PdfInv, ModelIsOfItsOrder, IsAmountOf
  <2>4. x = y
    BY <2>2, <2>3 DEF PdfInv, OneMessagePerOrder
  <2> QED BY <2>1, <2>2, <2>3, <2>4
<1> QED BY <1>1, PdfCorrect, PTL DEF Spec, RedeliveryPrintsTheSame
=============================================================================
