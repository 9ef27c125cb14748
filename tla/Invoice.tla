------------------------------ MODULE Invoice ------------------------------
(***************************************************************************)
(* invoice-service: one event loop that serves HTTP requests and the       *)
(* messages of one Redis subscription, a table of invoices and a directory *)
(* of PDF files named after the order.                                     *)
(*                                                                         *)
(* A handler runs to its end before the loop goes on, so nothing of the    *)
(* service interleaves with invoiceGenCallback; but the process may die    *)
(* between any two of its steps, each of which is durable at once.         *)
(***************************************************************************)
EXTENDS Integers, Sequences, FiniteSets

CONSTANTS
  Orders,    \* order SIDs
  Totals,    \* totals of orders, 0 for a message that lacks a field
  Byte,      \* number of values of a uint8_t: 256
  MaxRows,   \* bound: row ids a run hands out
  MaxSends   \* bound: how often one PUBLISH may reach Redis

ASSUME ByteAssumption == Byte \in Nat \ {0}
ASSUME TotalsAssumption == Totals \subseteq Nat
ASSUME MaxRowsAssumption == MaxRows \in Nat
ASSUME MaxSendsAssumption == MaxSends \in Nat

VARIABLES
  up,         \* the process runs
  conn,       \* the Redis connection
  inbox,      \* messages received and not yet handled
  step,       \* where invoiceGenCallback is
  inv,        \* its InvoiceModel: id and total are uint8_t
  rows,       \* table invoice_models
  lastId,     \* its AUTOINCREMENT counter
  pdfs,       \* total printed in data/<order>.pdf, NoPdf without a file
  sends       \* how often each message of the checkout has reached Redis

loopVars == <<up, conn, inbox, step, inv>>
diskVars == <<rows, lastId, pdfs>>
vars == <<loopVars, diskVars, sends>>

NoPdf == -1
Message == [order : Orders, total : Totals]
Row == [id : 1 .. MaxRows, order : Orders, by : {"http", "redis"}]
Model == [id : 0 .. Byte - 1, order : Orders, total : 0 .. Byte - 1]
Steps == {"idle", "parsed", "stored", "printed"}

TypeOK ==
  /\ up \in BOOLEAN
  /\ conn \in {"connecting", "subscribed", "gone"}
  /\ inbox \in Seq(Message)
  /\ step \in Steps
  /\ inv \in Model
  /\ rows \subseteq Row
  /\ lastId \in 0 .. MaxRows
  /\ pdfs \in [Orders -> 0 .. Byte - 1 \cup {NoPdf}]
  /\ sends \in [Message -> 0 .. MaxSends]

Init ==
  /\ up = TRUE
  /\ conn = "connecting"
  /\ inbox = <<>>
  /\ step = "idle"
  /\ inv \in [id : {0}, order : Orders, total : {0}]
  /\ rows = {}
  /\ lastId = 0
  /\ pdfs = [o \in Orders |-> NoPdf]
  /\ sends = [m \in Message |-> 0]

----------------------------------------------------------------------------
(***************************************************************************)
(* The Redis side                                                          *)
(***************************************************************************)

\* Mutant: the fields of InvoiceModel are int8_t.
ToSignedByte(n) ==
  ((n + Byte \div 2) % Byte) - Byte \div 2

\* Assignment to a uint8_t.
ToByte(n) == n % Byte

\* The checkout publishes one message for an order.  Its Redis client sends PUBLISH
\* again when the reply is lost, so that a message may arrive more than once; who does
\* not listen misses it.
Publish(m) ==
  /\ sends[m] < MaxSends
  /\ \A x \in Message : x.order = m.order /\ sends[x] > 0 => x = m
  /\ sends' = [sends EXCEPT ![m] = @ + 1]
  /\ inbox' = IF conn = "subscribed" THEN Append(inbox, m) ELSE inbox
  /\ UNCHANGED <<up, conn, step, inv, diskVars>>

\* connectCallback: SUBSCRIBE, unless the connection or the command fails.
Subscribe ==
  /\ up
  /\ conn = "connecting"
  /\ step = "idle"
  /\ conn' \in {"subscribed", "gone"}
  /\ UNCHANGED <<up, inbox, step, inv, diskVars, sends>>

\* disconnectCallback only logs: the connection is not made again.
Disconnect ==
  /\ up
  /\ conn = "subscribed"
  /\ step = "idle"
  /\ conn' = "gone"
  /\ inbox' = <<>>
  /\ UNCHANGED <<up, step, inv, diskVars, sends>>

(***************************************************************************)
(* parse_redis_invoice_gen.  A message with a field that is missing or     *)
(* empty is refused; the numbers are cut to a uint8_t before they are      *)
(* compared with 0.                                                        *)
(***************************************************************************)
Parses(m) == ToByte(m.total) > 0

\* Mutant: one model for all messages, and the return code of the parser is not looked
\* at: what a message lacks is left from the one before.
ReceiveIntoOldModel ==
  /\ up
  /\ step = "idle"
  /\ inbox # <<>>
  /\ inbox' = Tail(inbox)
  /\ step' = "parsed"
  /\ inv' = IF Parses(Head(inbox))
              THEN [id |-> 0, order |-> Head(inbox).order,
                    total |-> ToByte(Head(inbox).total)]
              ELSE [inv EXCEPT !.id = 0, !.order = Head(inbox).order]
  /\ UNCHANGED <<up, conn, diskVars, sends>>

Receive ==
  /\ up
  /\ step = "idle"
  /\ inbox # <<>>
  /\ inbox' = Tail(inbox)
  /\ IF Parses(Head(inbox))
       THEN /\ step' = "parsed"
            /\ inv' = [id |-> 0, order |-> Head(inbox).order,
                       total |-> ToByte(Head(inbox).total)]
       ELSE UNCHANGED <<step, inv>>
  /\ UNCHANGED <<up, conn, diskVars, sends>>

\* The row an INSERT into the AUTOINCREMENT table creates.
NewRow(o, by) == [id |-> lastId + 1, order |-> o, by |-> by]

\* db_create_invoice hands back the row id in the uint8_t field id.
StoreRow ==
  /\ up
  /\ step = "parsed"
  /\ lastId < MaxRows
  /\ rows' = rows \cup {NewRow(inv.order, "redis")}
  /\ lastId' = lastId + 1
  /\ inv' = [inv EXCEPT !.id = ToByte(lastId + 1)]
  /\ step' = "stored"
  /\ UNCHANGED <<up, conn, inbox, pdfs, sends>>

\* Mutant: the return code of db_create_invoice is not looked at.
StoreFailsUnnoticed ==
  /\ up
  /\ step = "parsed"
  /\ step' = "stored"
  /\ UNCHANGED <<up, conn, inbox, inv, diskVars, sends>>

\* The rollback that follows finds id 0 and deletes nothing.
StoreFails ==
  /\ up
  /\ step = "parsed"
  /\ step' = "idle"
  /\ UNCHANGED <<up, conn, inbox, inv, diskVars, sends>>

PrintPdf ==
  /\ up
  /\ step = "stored"
  /\ pdfs' = [pdfs EXCEPT ![inv.order] = inv.total]
  /\ step' = "printed"
  /\ UNCHANGED <<up, conn, inbox, inv, rows, lastId, sends>>

\* Jumps over the rollback: the row stays.
PrintFails ==
  /\ up
  /\ step = "stored"
  /\ step' = "idle"
  /\ UNCHANGED <<up, conn, inbox, inv, diskVars, sends>>

\* Mutant: every row up to the id is deleted.
DeletedUpTo(id) == {row \in rows : row.id <= id}

\* db_delete_invoice
Deleted(id) == {row \in rows : row.id = id}

\* Mutant: after a failed DELETE the handler tries again, for ever.
RollbackRetries ==
  /\ up
  /\ step = "printed"
  /\ UNCHANGED <<up, conn, inbox, inv, diskVars, sends>>
  /\ step' = "stored"

\* There is no jump between the success of gen_invoice_pdf and the label
\* rollback_invoice_creation: the handler falls through.
Rollback ==
  /\ up
  /\ step = "printed"
  /\ \/ inv.id > 0 /\ rows' = rows \ Deleted(inv.id)
     \/ UNCHANGED rows
  /\ step' = "idle"
  /\ UNCHANGED <<up, conn, inbox, inv, lastId, pdfs, sends>>

----------------------------------------------------------------------------
(***************************************************************************)
(* HTTP, and the life of the process                                       *)
(***************************************************************************)

\* POST /invoices stores a row, for whatever order SID the body names.
HttpCreate(o) ==
  /\ up
  /\ step = "idle"
  /\ lastId < MaxRows
  /\ rows' = rows \cup {NewRow(o, "http")}
  /\ lastId' = lastId + 1
  /\ UNCHANGED <<loopVars, pdfs, sends>>

\* POST /gen-invoice prints a file without amounts over the one that is there.
HttpGen(o) ==
  /\ up
  /\ step = "idle"
  /\ pdfs' = [pdfs EXCEPT ![o] = 0]
  /\ UNCHANGED <<loopVars, rows, lastId, sends>>

\* The process dies: the table and the files stay, the connection is gone.
Crash ==
  /\ up
  /\ up' = FALSE
  /\ conn' = "gone"
  /\ inbox' = <<>>
  /\ step' = "idle"
  /\ UNCHANGED <<inv, diskVars, sends>>

Restart ==
  /\ ~up
  /\ up' = TRUE
  /\ conn' = "connecting"
  /\ UNCHANGED <<inbox, step, inv, diskVars, sends>>

----------------------------------------------------------------------------
Callback ==
  Receive \/ StoreRow \/ StoreFails \/ PrintPdf \/ PrintFails \/ Rollback

Next ==
  \/ \E m \in Message : Publish(m)
  \/ Subscribe \/ Disconnect
  \/ Callback
  \/ \E o \in Orders : HttpCreate(o) \/ HttpGen(o)
  \/ Crash \/ Restart

Spec == Init /\ [][Next]_vars

\* The loop runs the callback of a message that is there, and finishes it.
FairSpec == Spec /\ WF_vars(Callback)

----------------------------------------------------------------------------
(***************************************************************************)
(* Properties                                                              *)
(***************************************************************************)

\* As long as row ids fit the uint8_t, all that the rollback of a message deletes is
\* the row the message has stored: no invoice of HTTP, and none that an earlier message
\* left behind when the printing failed or the process died.
DeletesOwnRowWhileIdsFit ==
  [][lastId < Byte =>
       \A row \in rows \ rows' :
         row.id = lastId /\ row.order = inv.order /\ row.by = "redis"]_vars

\* A message is printed only while the row of its invoice is in the table, whatever
\* failed before.
PrintedIsStored ==
  step = "printed" => \E row \in rows : row.id = lastId /\ row.order = inv.order

\* The amount is that of a message the checkout has published for the order, cut to a
\* byte.
IsAmountOf(o, amount) ==
  \E m \in Message : sends[m] > 0 /\ m.order = o /\ amount = ToByte(m.total)

\* A PDF with an amount shows that of the one message of its order, cut to a byte:
\* never that of another order, however messages are repeated, refused, lost with a
\* connection or abandoned in a crash, and whatever HTTP prints over it.
PdfShowsItsOrder ==
  \A o \in Orders : pdfs[o] > 0 => IsAmountOf(o, pdfs[o])

\* So a message that arrives again prints what is there.  Only POST /gen-invoice, which
\* has no amounts, takes a printed amount away.
RedeliveryPrintsTheSame ==
  [][\A o \in Orders : pdfs[o] > 0 => pdfs'[o] \in {pdfs[o], 0}]_vars

\* The message at the head of the queue is handled, or lost with its connection.
InboxMoves ==
  \A n \in 1 .. MaxSends * Cardinality(Orders) : Len(inbox) = n ~> Len(inbox) # n

\* What the documentation says: a message that went well leaves an invoice in the
\* table.
InvoicePersisted ==
  [][step = "printed" /\ step' = "idle" /\ up'
       => \E row \in rows' : row.order = inv.order]_vars

\* What the comment of db_create_invoice says: the id it returns is the id of the new
\* invoice, so that the rollback can delete no other.
DeletesOwnRow ==
  [][\A row \in rows \ rows' : row.order = inv.order /\ row.by = "redis"]_vars
=============================================================================
