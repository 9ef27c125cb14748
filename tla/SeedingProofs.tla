---------------------------- MODULE SeedingProofs ----------------------------
(***************************************************************************)
(* Proofs about Seeding, for any size of the seed and any number of starts,*)
(* products and failures.                                                  *)
(***************************************************************************)
EXTENDS Seeding, SequenceTheorems, TLAPS

(***************************************************************************)
(* A transaction is open, and a call of it under way, only in the phases   *)
(* that say so.                                                            *)
(***************************************************************************)
PhaseInv ==
  /\ phase \notin Open => batch = <<>>
  /\ call # "none" => added < Len(batch)

----------------------------------------------------------------------------
(***************************************************************************)
(* Types                                                                   *)
(***************************************************************************)

\* The SIDs of a transaction that begins are new ones.
LEMMA BeginType ==
  ASSUME NEW n \in Nat, drawn \in Nat, Begin(n)
  PROVE  /\ drawn' \in Nat /\ drawn <= drawn'
         /\ batch' \in Seq(1 .. drawn') /\ Len(batch') = n
<1>1. drawn' = drawn + n /\ batch' = [i \in 1 .. n |-> drawn + i]
  BY DEF Begin
<1>2. batch' \in [1 .. n -> 1 .. drawn']
  BY <1>1
<1> QED BY <1>1, <1>2

\* What has been drawn stays drawn.
LEMMA DrawnGrows ==
  ASSUME drawn \in Nat, drawn' \in Nat, drawn <= drawn'
  PROVE  /\ \A s \in Seq(1 .. drawn) : s \in Seq(1 .. drawn')
         /\ \A X : X \subseteq 1 .. drawn => X \subseteq 1 .. drawn'
<1>1. 1 .. drawn \subseteq 1 .. drawn'
  OBVIOUS
<1> QED BY <1>1, SeqMonotonic

LEMMA TypeInit == Init => TypeOK /\ PhaseInv
<1> SUFFICES ASSUME Init PROVE TypeOK /\ PhaseInv
  OBVIOUS
<1>1. <<>> \in Seq(1 .. 0) /\ Len(<<>>) = 0
  BY EmptySeq
<1>2. TypeOK
  BY <1>1 DEF Init, TypeOK
<1>3. PhaseInv
  BY DEF Init, PhaseInv
<1> QED BY <1>2, <1>3

LEMMA TypeStep == TypeOK /\ PhaseInv /\ [Next]_vars => TypeOK' /\ PhaseInv'
<1> SUFFICES ASSUME TypeOK, PhaseInv, [Next]_vars PROVE TypeOK' /\ PhaseInv'
  OBVIOUS
<1>0. /\ Len(batch) \in Nat /\ Len(inv) \in Nat /\ Len(co) \in Nat
      /\ <<>> \in Seq(1 .. drawn) /\ Len(<<>>) = 0
  BY LenProperties, EmptySeq DEF TypeOK
<1>e. End => batch' \in Seq(1 .. drawn) /\ Len(batch') = 0 /\ added' = 0 /\ call' = "none"
  BY <1>0 DEF End
<1>b. ASSUME NEW n \in Nat, Begin(n), phase \notin Open, phase' \in Open,
             starts' \in Nat, UNCHANGED <<added, inv, deleted, call, handlers, co>>
      PROVE  TypeOK' /\ PhaseInv'
  <2>1. /\ drawn' \in Nat /\ drawn <= drawn'
        /\ batch' \in Seq(1 .. drawn') /\ Len(batch') = n
    BY <1>b, BeginType DEF TypeOK
  <2>2. added = 0 /\ call = "none"
    BY <1>b, <1>0 DEF PhaseInv, TypeOK
  <2>3. /\ inv' \in Seq(1 .. drawn') /\ co' \in Seq(1 .. drawn')
        /\ handlers' \subseteq 1 .. drawn'
    BY <1>b, <2>1, DrawnGrows DEF TypeOK
  <2>4. TypeOK'
    BY <1>b, <2>1, <2>2, <2>3 DEF TypeOK, Elems, Open
  <2>5. PhaseInv'
    BY <1>b, <2>2 DEF PhaseInv
  <2> QED BY <2>4, <2>5
<1>1. CASE Start
  <2>1. CASE Begin(Batch) /\ phase' = "seeding"
    <3>1. /\ Batch \in Nat /\ starts' \in Nat
          /\ phase \notin Open /\ phase' \in Open
          /\ UNCHANGED <<added, inv, deleted, call, handlers, co>>
      BY <1>1, <2>1, BatchAssumption DEF Start, Open, TypeOK
    <3> QED BY <1>b, <2>1, <3>1
  <2>2. CASE UNCHANGED <<drawn, batch>> /\ phase' = "serving"
    BY <1>1, <2>2 DEF Start, TypeOK, PhaseInv, Open, Elems
  <2> QED BY <1>1, <2>1, <2>2 DEF Start
<1>2. CASE CreateProduct
  BY <1>2, <1>b DEF CreateProduct, Open, TypeOK
<1>3. CASE Work
  <2>1. CASE Call
    <3>1. batch[added + 1] \in 1 .. drawn
      BY <1>0, <2>1, ElementOfSeq DEF Call, TypeOK
    <3> QED BY <2>1, <3>1 DEF Call, TypeOK, PhaseInv, invVars
  <2>2. CASE Confirmed
    <3>1. added' \in 0 .. Len(batch)
      BY <1>0, <2>2 DEF Confirmed, TypeOK, PhaseInv
    <3> QED BY <2>2, <3>1 DEF Confirmed, TypeOK, PhaseInv
  <2>3. CASE Commit
    <3>1. /\ inv' \in Seq(1 .. drawn)
          /\ Elems(inv) \subseteq Elems(inv')
      <4>1. inv' = inv \o batch /\ inv' \in Seq(1 .. drawn)
        BY <2>3, ConcatProperties DEF Commit, TypeOK
      <4>2. \A i \in DOMAIN inv : i \in DOMAIN inv' /\ inv'[i] = inv[i]
        BY <1>0, <4>1, ConcatProperties, LenProperties DEF TypeOK
      <4> QED BY <4>1, <4>2 DEF Elems
    <3>2. TypeOK'
      BY <1>e, <2>3, <3>1 DEF Commit, TypeOK, Open
    <3>3. PhaseInv'
      BY <1>e, <2>3 DEF Commit, PhaseInv, End
    <3> QED BY <3>2, <3>3
  <2>4. CASE Rollback
    <3>1. TypeOK'
      BY <1>e, <2>4 DEF Rollback, TypeOK, Open, Elems
    <3>2. PhaseInv'
      BY <1>e, <2>4 DEF Rollback, PhaseInv, End
    <3> QED BY <3>1, <3>2
  <2> QED BY <1>3, <2>1, <2>2, <2>3, <2>4 DEF Work
<1>4. CASE Disconnect
  BY <1>4 DEF Disconnect, TypeOK, PhaseInv, invVars, Elems
<1>5. CASE Crash
  <2>1. TypeOK'
    BY <1>e, <1>5 DEF Crash, TypeOK, Elems
  <2>2. PhaseInv'
    BY <1>e, <1>5 DEF Crash, PhaseInv, End
  <2> QED BY <2>1, <2>2
<1>6. CASE CheckoutCrash
  BY <1>6 DEF CheckoutCrash, TypeOK, PhaseInv, invVars, Elems
<1>7. ASSUME NEW s \in 1 .. drawn, DeleteProduct(s) PROVE TypeOK' /\ PhaseInv'
  BY <1>7 DEF DeleteProduct, TypeOK, PhaseInv, Elems
<1>8. ASSUME NEW s \in 1 .. drawn, HandlerStep(s) PROVE TypeOK' /\ PhaseInv'
  <2>1. co' \in Seq(1 .. drawn)
    <3>1. Append(co, s) \in Seq(1 .. drawn)
      BY AppendProperties DEF TypeOK
    <3> QED BY <1>8, <3>1 DEF HandlerStep, AddNewProduct, AddFails, TypeOK
  <2>2. /\ handlers' = handlers \ {s} /\ UNCHANGED invVars
        /\ call' = call \/ (call = "called" /\ call' \in {"ok", "error"})
    BY <1>8 DEF HandlerStep, AddNewProduct, AddFails, Reply
  <2>3. TypeOK'
    BY <2>1, <2>2 DEF TypeOK, invVars, Elems
  <2>4. PhaseInv'
    BY <2>2 DEF PhaseInv, invVars
  <2> QED BY <2>3, <2>4
<1>9. CASE UNCHANGED vars
  BY <1>9 DEF vars, invVars, TypeOK, PhaseInv, Elems
<1> QED BY <1>1, <1>2, <1>3, <1>4, <1>5, <1>6, <1>7, <1>8, <1>9 DEF Next

\* In every reachable state the variables have their types (TypeOK), and only an open
\* transaction has a call under way.
THEOREM TypeCorrect == Spec => [](TypeOK /\ PhaseInv)
BY TypeInit, TypeStep, PTL DEF Spec

----------------------------------------------------------------------------
(***************************************************************************)
(* The seed is all or nothing                                              *)
(***************************************************************************)
SeededInv ==
  /\ ServesWhatItSeeded
  /\ phase = "seeding" => Len(batch) = Batch
  /\ inv # <<>> => Len(inv) >= Batch

LEMMA SeededInit == Init => SeededInv
BY DEF Init, SeededInv, ServesWhatItSeeded

LEMMA SeededStep == TypeOK /\ SeededInv /\ [Next]_vars => SeededInv'
<1> SUFFICES ASSUME TypeOK, SeededInv, [Next]_vars PROVE SeededInv'
  OBVIOUS
<1> USE DEF SeededInv, ServesWhatItSeeded
<1>0. Len(batch) \in Nat /\ Len(inv) \in Nat
  BY LenProperties DEF TypeOK
<1>1. CASE Start
  <2>1. CASE Begin(Batch) /\ phase' = "seeding"
    <3>1. Len(batch') = Batch
      BY <2>1, BeginType, BatchAssumption DEF TypeOK
    <3> QED BY <1>1, <2>1, <3>1 DEF Start
  <2>2. CASE ~(Elems(inv) \subseteq deleted) /\ phase' = "serving"
    <3>1. inv # <<>>
      BY <2>2 DEF Elems
    <3> QED BY <1>1, <2>2, <3>1 DEF Start
  <2> QED BY <1>1, <2>1, <2>2 DEF Start
<1>2. CASE Commit
  <2>1. Len(inv') = Len(inv) + Len(batch)
    BY <1>2, ConcatProperties DEF Commit, TypeOK
  <2>2. phase = "seeding" \/ phase = "creating"
    BY <1>2 DEF Commit, Open
  <2>3. Len(inv') >= Batch
    BY <1>0, <2>1, <2>2, BatchAssumption
  <2> QED BY <1>2, <2>3 DEF Commit
<1>3. CASE CreateProduct \/ Call \/ Confirmed \/ Rollback \/ Disconnect \/ Crash
           \/ CheckoutCrash \/ UNCHANGED vars
  BY <1>3
     DEF CreateProduct, Call, Confirmed, Rollback, Disconnect, Crash, CheckoutCrash,
         vars, invVars, Open
<1>4. ASSUME NEW s \in 1 .. drawn, DeleteProduct(s) \/ HandlerStep(s) PROVE SeededInv'
  BY <1>4 DEF DeleteProduct, HandlerStep, AddNewProduct, AddFails, invVars
<1> QED BY <1>1, <1>2, <1>3, <1>4 DEF Next, Work

LEMMA SeededCorrect == Spec => []SeededInv
BY SeededInit, SeededStep, TypeCorrect, PTL DEF Spec

\* However many starts were cut short, a shop that serves holds a whole seed
\* (ServesWhatItSeeded).
THEOREM ServesAWholeSeed == Spec => []ServesWhatItSeeded
BY SeededCorrect, PTL DEF SeededInv

----------------------------------------------------------------------------
(***************************************************************************)
(* The order of the rows                                                   *)
(*                                                                         *)
(* SameOrder speaks of what the inventory has committed.  It is kept       *)
(* because it holds already of that and what the checkout has confirmed    *)
(* of the open transaction: the next product is sent after the last one    *)
(* was confirmed, so its row comes after, wherever rows of requests that   *)
(* were given up come between.                                             *)
(***************************************************************************)
KnownLen == Len(inv) + added + (IF call = "ok" THEN 1 ELSE 0)

Known(i) == IF i <= Len(inv) THEN inv[i] ELSE batch[i - Len(inv)]

Ordered(i, j) ==
  \E k, l \in 1 .. Len(co) :
    k <= l /\ i <= k /\ j - i <= l - k /\ co[k] = Known(i) /\ co[l] = Known(j)

OrderInv == \A i, j \in 1 .. KnownLen : i <= j => Ordered(i, j)

LEMMA KnownLenType ==
  ASSUME TypeOK
  PROVE  KnownLen \in Nat /\ Len(inv) \in Nat /\ Len(co) \in Nat /\ Len(batch) \in Nat
BY LenProperties DEF TypeOK, KnownLen

\* What is known, or less of it, and the rows of the checkout stay as they are.
LEMMA OrderKept ==
  ASSUME TypeOK, OrderInv, co' = co, KnownLen' \in Int, KnownLen' <= KnownLen,
         \A i \in 1 .. KnownLen' : Known(i)' = Known(i)
  PROVE  OrderInv'
<1> SUFFICES ASSUME NEW i \in 1 .. KnownLen', NEW j \in 1 .. KnownLen', i <= j
             PROVE  Ordered(i, j)'
  BY DEF OrderInv
<1>1. Ordered(i, j)
  BY KnownLenType DEF OrderInv
<1> QED BY <1>1 DEF Ordered

LEMMA OrderInit == Init => OrderInv
BY DEF Init, OrderInv, KnownLen

\* A row that the checkout appends for a request nobody waits for.
LEMMA OrderAppend ==
  ASSUME TypeOK, OrderInv, NEW s \in 1 .. drawn, co' = Append(co, s),
         UNCHANGED <<inv, batch, added>>, call' = call
  PROVE  OrderInv'
<1>1. Len(co') = Len(co) + 1 /\ \A k \in 1 .. Len(co) : co'[k] = co[k]
  BY AppendProperties DEF TypeOK
<1>2. KnownLen' = KnownLen /\ \A i : Known(i)' = Known(i)
  BY DEF KnownLen, Known
<1> SUFFICES ASSUME NEW i \in 1 .. KnownLen, NEW j \in 1 .. KnownLen, i <= j
             PROVE  Ordered(i, j)'
  BY <1>2 DEF OrderInv
<1>3. Ordered(i, j)
  BY DEF OrderInv
<1> QED BY <1>1, <1>2, <1>3, KnownLenType DEF Ordered

\* The row of the product that is waited for comes after all that is known.
LEMMA OrderConfirm ==
  ASSUME TypeOK, PhaseInv, OrderInv, call = "called", call' = "ok",
         co' = Append(co, batch[added + 1]), UNCHANGED <<inv, batch, added>>
  PROVE  OrderInv'
<1> DEFINE s == batch[added + 1]
<1>0. added \in Nat /\ added < Len(batch) /\ s \in 1 .. drawn
  BY KnownLenType, ElementOfSeq DEF TypeOK, PhaseInv
<1>1. /\ Len(co') = Len(co) + 1 /\ co'[Len(co) + 1] = s
      /\ \A k \in 1 .. Len(co) : co'[k] = co[k]
  BY <1>0, AppendProperties DEF TypeOK
<1>2. /\ KnownLen' = KnownLen + 1 /\ KnownLen = Len(inv) + added
      /\ \A i : Known(i)' = Known(i)
  BY <1>0, KnownLenType DEF KnownLen, Known
<1>3. Known(KnownLen + 1) = s
  BY <1>0, <1>2, KnownLenType DEF Known
<1>4. KnownLen <= Len(co)
  <2>1. CASE KnownLen = 0
    BY <2>1, KnownLenType
  <2>2. CASE KnownLen # 0
    <3>1. Ordered(KnownLen, KnownLen)
      BY <2>2, KnownLenType DEF OrderInv
    <3> QED BY <3>1, KnownLenType DEF Ordered
  <2> QED BY <2>1, <2>2
<1> SUFFICES ASSUME NEW i \in 1 .. KnownLen + 1, NEW j \in 1 .. KnownLen + 1, i <= j
             PROVE  Ordered(i, j)'
  BY <1>2 DEF OrderInv
<1>5. CASE j <= KnownLen
  <2>1. Ordered(i, j)
    BY <1>5, KnownLenType DEF OrderInv
  <2> QED BY <1>1, <1>2, <2>1, KnownLenType DEF Ordered
<1>6. CASE i = KnownLen + 1
  <2>1. j = i /\ Len(co) + 1 \in 1 .. Len(co') /\ i <= Len(co) + 1
    BY <1>1, <1>4, <1>6, KnownLenType
  <2>2. co'[Len(co) + 1] = Known(i)'
    BY <1>1, <1>2, <1>3, <1>6
  <2> QED BY <2>1, <2>2, KnownLenType DEF Ordered
<1>7. CASE i <= KnownLen /\ j = KnownLen + 1
  <2>1. Ordered(i, KnownLen)
    BY <1>7, KnownLenType DEF OrderInv
  <2>2. PICK k, l \in 1 .. Len(co) :
          k <= l /\ i <= k /\ KnownLen - i <= l - k /\ co[k] = Known(i)
    BY <2>1 DEF Ordered
  <2>3. /\ k \in 1 .. Len(co') /\ Len(co) + 1 \in 1 .. Len(co')
        /\ k <= Len(co) + 1 /\ i <= k /\ j - i <= Len(co) + 1 - k
    BY <1>1, <1>7, <2>2, KnownLenType
  <2>4. co'[k] = Known(i)' /\ co'[Len(co) + 1] = Known(j)'
    BY <1>1, <1>2, <1>3, <1>7, <2>2
  <2> QED BY <2>3, <2>4 DEF Ordered
<1> QED BY <1>5, <1>6, <1>7, <1>2, KnownLenType

LEMMA OrderStep ==
  TypeOK /\ TypeOK' /\ PhaseInv /\ PhaseInv' /\ OrderInv /\ [Next]_vars => OrderInv'
<1> SUFFICES ASSUME TypeOK, TypeOK', PhaseInv, PhaseInv', OrderInv, [Next]_vars
             PROVE  OrderInv'
  OBVIOUS
<1>0. KnownLen \in Nat /\ Len(inv) \in Nat /\ Len(batch) \in Nat /\ added \in Nat
  BY KnownLenType DEF TypeOK
<1>a. ASSUME UNCHANGED <<inv, batch, added, co>>, call' = call \/ call' # "ok"
      PROVE  OrderInv'
  <2>1. KnownLen' \in Int /\ KnownLen' <= KnownLen
    BY <1>a, <1>0 DEF KnownLen
  <2>2. \A i : Known(i)' = Known(i)
    BY <1>a DEF Known
  <2> QED BY <1>a, <2>1, <2>2, OrderKept
<1>b. ASSUME UNCHANGED <<inv, co>>, added' = 0, call' = "none"
      PROVE  OrderInv'
  <2>1. KnownLen' = Len(inv) /\ KnownLen' <= KnownLen
    BY <1>b, <1>0 DEF KnownLen
  <2>2. \A i \in 1 .. KnownLen' : Known(i)' = Known(i)
    BY <1>b, <1>0, <2>1 DEF Known
  <2> QED BY <1>b, <1>0, <2>1, <2>2, OrderKept
<1>1. CASE Start \/ CreateProduct
  <2>1. phase \notin Open /\ UNCHANGED <<inv, co, added, call>>
    BY <1>1 DEF Start, CreateProduct, Open
  <2>2. batch = <<>>
    BY <2>1 DEF PhaseInv
  <2>3. added = 0 /\ call = "none"
    BY <1>0, <2>2, EmptySeq DEF PhaseInv, TypeOK
  <2> QED BY <1>b, <2>1, <2>3
<1>2. CASE Commit
  <2>1. /\ inv' = inv \o batch /\ added = Len(batch) /\ added' = 0 /\ call' = "none"
        /\ co' = co
    BY <1>2 DEF Commit, End
  <2>2. call = "none"
    BY <1>0, <2>1 DEF PhaseInv, TypeOK
  <2>3. /\ Len(inv') = Len(inv) + Len(batch)
        /\ \A i \in 1 .. Len(inv) + Len(batch) :
             inv'[i] = IF i <= Len(inv) THEN inv[i] ELSE batch[i - Len(inv)]
    BY <2>1, ConcatProperties DEF TypeOK
  <2>4. KnownLen' = KnownLen /\ KnownLen' = Len(inv')
    BY <1>0, <2>1, <2>2, <2>3 DEF KnownLen
  <2>5. \A i \in 1 .. KnownLen' : Known(i)' = Known(i)
    BY <1>0, <2>3, <2>4 DEF Known
  <2> QED BY <1>0, <2>1, <2>4, <2>5, OrderKept
<1>3. CASE Confirmed
  <2>1. /\ call = "ok" /\ added' = added + 1 /\ call' = "none"
        /\ UNCHANGED <<inv, batch, co>>
    BY <1>3 DEF Confirmed
  <2>2. KnownLen' = KnownLen
    BY <1>0, <2>1 DEF KnownLen
  <2>3. \A i : Known(i)' = Known(i)
    BY <2>1 DEF Known
  <2> QED BY <1>0, <2>1, <2>2, <2>3, OrderKept
<1>4. CASE Call \/ Disconnect \/ CheckoutCrash
  BY <1>4, <1>a DEF Call, Disconnect, CheckoutCrash, invVars
<1>5. CASE Rollback \/ Crash
  BY <1>5, <1>b DEF Rollback, Crash, End
<1>6. ASSUME NEW s \in 1 .. drawn, DeleteProduct(s) PROVE OrderInv'
  BY <1>6, <1>a DEF DeleteProduct
<1>7. ASSUME NEW s \in 1 .. drawn, AddNewProduct(s) PROVE OrderInv'
  <2>1. co' = Append(co, s) /\ UNCHANGED <<inv, batch, added>>
    BY <1>7 DEF AddNewProduct, invVars
  <2>2. CASE call' = call
    BY <2>1, <2>2, OrderAppend
  <2>3. CASE call = "called" /\ batch[added + 1] = s /\ call' = "ok"
    BY <2>1, <2>3, OrderConfirm
  <2> QED BY <1>7, <2>2, <2>3 DEF AddNewProduct, Reply
<1>8. ASSUME NEW s \in 1 .. drawn, AddFails(s) PROVE OrderInv'
  BY <1>8, <1>a DEF AddFails, Reply, invVars
<1>9. CASE UNCHANGED vars
  BY <1>9, <1>a DEF vars, invVars
<1> QED
  BY <1>1, <1>2, <1>3, <1>4, <1>5, <1>6, <1>7, <1>8, <1>9 DEF Next, Work, HandlerStep

LEMMA OrderCorrect == Spec => []OrderInv
BY OrderInit, OrderStep, TypeCorrect, PTL DEF Spec

\* The products of the inventory stand in the checkout in the same order, apart from
\* each other by no less: a row id of the one differs from that of the other only by
\* what failed seeds and creations left in between (SameOrder).
THEOREM RowsInTheSameOrder == Spec => []SameOrder
<1>1. TypeOK /\ OrderInv => SameOrder
  <2> SUFFICES ASSUME TypeOK, OrderInv, NEW i \in DOMAIN inv, NEW j \in DOMAIN inv, i <= j
               PROVE  \E k, l \in DOMAIN co :
                        /\ k <= l /\ i <= k /\ j - i <= l - k
                        /\ co[k] = inv[i] /\ co[l] = inv[j]
    BY DEF SameOrder
  <2>1. DOMAIN inv = 1 .. Len(inv) /\ DOMAIN co = 1 .. Len(co)
    BY LenProperties DEF TypeOK
  <2>2. Len(inv) \in Nat /\ KnownLen \in Nat /\ Len(inv) <= KnownLen
    BY KnownLenType DEF KnownLen, TypeOK
  <2>3. Ordered(i, j)
    BY <2>1, <2>2 DEF OrderInv
  <2>4. Known(i) = inv[i] /\ Known(j) = inv[j]
    BY <2>1, <2>2 DEF Known
  <2> QED BY <2>1, <2>3, <2>4 DEF Ordered
<1> QED BY <1>1, OrderCorrect, TypeCorrect, PTL
=============================================================================
