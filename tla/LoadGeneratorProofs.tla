------------------------ MODULE LoadGeneratorProofs ------------------------
(***************************************************************************)
(* Proofs about LoadGenerator, for any number of goroutines and slots.     *)
(***************************************************************************)
EXTENDS LoadGenerator, FiniteSetTheorems, TLAPS

(***************************************************************************)
(* The counters say how many goroutines are where: sem counts those at     *)
(* work, wg also those that have given their slot back and are not done.   *)
(***************************************************************************)
Holders == {w \in Workers : worker[w] \in AtWork}
Awaited == {w \in Workers : worker[w] \in AtWork \cup {"released"}}

CountersAgree == sem = Cardinality(Holders) /\ wg = Cardinality(Awaited)

Inv == TypeOK /\ CountersAgree /\ NothingLeftBehind

LEMMA Finite ==
  /\ IsFiniteSet(Holders) /\ Cardinality(Holders) \in Nat
  /\ IsFiniteSet(Awaited) /\ Cardinality(Awaited) \in Nat
<1>1. Holders \subseteq Workers /\ Awaited \subseteq Workers
  BY DEF Holders, Awaited
<1> QED BY <1>1, WorkersAssumption, FS_Subset, FS_CardinalityType

LEMMA InvInit == Init => Inv
<1> SUFFICES ASSUME Init PROVE Inv
  OBVIOUS
<1>1. Holders = {} /\ Awaited = {}
  BY DEF Init, Holders, Awaited, AtWork
<1>2. CountersAgree
  BY <1>1, FS_EmptySet DEF Init, CountersAgree
<1>3. TypeOK
  <2>1. sem \in 0 .. Concurrency
    BY ConcurrencyAssumption DEF Init
  <2>2. worker \in [Workers -> {"none", "released", "ended"} \cup AtWork]
    BY DEF Init
  <2> QED BY <2>1, <2>2 DEF Init, TypeOK
<1>4. NothingLeftBehind
  BY DEF Init, NothingLeftBehind
<1> QED BY <1>2, <1>3, <1>4 DEF Inv

\* A step that leaves the goroutines and the counters alone, and lets main end only
\* when wg.Wait does.
LEMMA MainStep ==
  ASSUME Inv, UNCHANGED loopVars,
         main' \in {"fetching", "creating", "looping", "draining", "done", "failed"},
         products' \in Nat, expired' \in BOOLEAN, tick' \in BOOLEAN,
         main' = "done" => main = "done" \/ wg = 0
  PROVE  Inv'
<1>1. TypeOK'
  BY DEF Inv, TypeOK, loopVars
<1>2. Holders' = Holders /\ Awaited' = Awaited
  BY DEF loopVars, Holders, Awaited
<1>3. CountersAgree'
  BY <1>2 DEF Inv, CountersAgree, loopVars
<1>4. NothingLeftBehind'
  <2>1. CASE main = "done"
    BY <2>1 DEF Inv, NothingLeftBehind, loopVars
  <2>2. CASE main' = "done" /\ wg = 0
    <3>1. Awaited = {}
      BY <2>2, Finite, FS_EmptySet DEF Inv, CountersAgree
    <3> QED BY <3>1 DEF Awaited, AtWork, Inv, TypeOK, loopVars, NothingLeftBehind
  <2> QED BY <2>1, <2>2 DEF NothingLeftBehind
<1> QED BY <1>1, <1>3, <1>4 DEF Inv

LEMMA LaunchKeeps == ASSUME Inv, NEW w \in Workers, Launch(w) PROVE Inv'
<1>1. /\ Holders' = Holders \cup {w} /\ w \notin Holders
      /\ Awaited' = Awaited \cup {w} /\ w \notin Awaited
  BY DEF Launch, Holders, Awaited, AtWork, Inv, TypeOK
<1>2. /\ Cardinality(Holders') = Cardinality(Holders) + 1
      /\ Cardinality(Awaited') = Cardinality(Awaited) + 1
  BY <1>1, Finite, FS_AddElement
<1>3. CountersAgree'
  BY <1>2 DEF Launch, Inv, CountersAgree
<1>4. TypeOK'
  <2>1. sem' \in 0 .. Concurrency
    BY ConcurrencyAssumption DEF Launch, Inv, TypeOK
  <2>2. worker' \in [Workers -> {"none", "released", "ended"} \cup AtWork]
    BY DEF Launch, Inv, TypeOK, AtWork
  <2>3. wg' \in Nat
    BY DEF Launch, Inv, TypeOK
  <2>4. tick' \in BOOLEAN /\ UNCHANGED <<main, products, expired>>
    BY DEF Launch
  <2> QED BY <2>1, <2>2, <2>3, <2>4 DEF Inv, TypeOK, AtWork
<1>5. NothingLeftBehind'
  BY DEF Launch, NothingLeftBehind
<1> QED BY <1>3, <1>4, <1>5 DEF Inv

\* A goroutine that goes on working holds on to its slot.
LEMMA WorkKeeps ==
  ASSUME Inv, NEW w \in Workers, Request(w) \/ NoRequest(w) \/ Answered(w)
  PROVE  Inv'
<1> USE DEF Request, NoRequest, Answered, Goto
<1>1. Holders' = Holders /\ Awaited' = Awaited
  BY DEF Holders, Awaited, AtWork, Inv, TypeOK
<1>2. CountersAgree'
  BY <1>1 DEF Inv, CountersAgree
<1>3. TypeOK'
  BY DEF Inv, TypeOK, AtWork
<1>4. NothingLeftBehind'
  BY DEF Inv, TypeOK, NothingLeftBehind
<1> QED BY <1>2, <1>3, <1>4 DEF Inv

LEMMA ReleaseKeeps == ASSUME Inv, NEW w \in Workers, Release(w) PROVE Inv'
<1> USE DEF Release, Goto
<1>1. /\ Holders' = Holders \ {w} /\ w \in Holders
      /\ Awaited' = Awaited
  BY DEF Holders, Awaited, AtWork, Inv, TypeOK
<1>2. Cardinality(Holders') = Cardinality(Holders) - 1 /\ Cardinality(Holders) # 0
  BY <1>1, Finite, FS_RemoveElement, FS_EmptySet
<1>3. CountersAgree'
  BY <1>1, <1>2 DEF Inv, CountersAgree
<1>4. sem' \in 0 .. Concurrency
  BY <1>2, Finite, ConcurrencyAssumption DEF Inv, CountersAgree, TypeOK
<1>5. TypeOK' /\ NothingLeftBehind'
  BY <1>4 DEF Inv, TypeOK, AtWork, NothingLeftBehind
<1> QED BY <1>3, <1>5 DEF Inv

LEMMA FinishKeeps == ASSUME Inv, NEW w \in Workers, Finish(w) PROVE Inv'
<1> USE DEF Finish, Goto
<1>1. /\ Awaited' = Awaited \ {w} /\ w \in Awaited
      /\ Holders' = Holders
  BY DEF Holders, Awaited, AtWork, Inv, TypeOK
<1>2. Cardinality(Awaited') = Cardinality(Awaited) - 1 /\ Cardinality(Awaited) # 0
  BY <1>1, Finite, FS_RemoveElement, FS_EmptySet
<1>3. CountersAgree'
  BY <1>1, <1>2 DEF Inv, CountersAgree
<1>4. wg' \in Nat
  BY <1>2, Finite DEF Inv, CountersAgree
<1>5. TypeOK' /\ NothingLeftBehind'
  BY <1>4 DEF Inv, TypeOK, AtWork, NothingLeftBehind
<1> QED BY <1>3, <1>5 DEF Inv

LEMMA InvStep == Inv /\ [Next]_vars => Inv'
<1> SUFFICES ASSUME Inv, [Next]_vars PROVE Inv'
  OBVIOUS
<1>0. /\ products \in Nat /\ expired \in BOOLEAN /\ tick \in BOOLEAN
      /\ main \in {"fetching", "creating", "looping", "draining", "done", "failed"}
  BY DEF Inv, TypeOK
<1>1. CASE Expire \/ Tick \/ Skip
  BY <1>0, <1>1, MainStep DEF Expire, Tick, Skip
<1>2. CASE SeedStep
  <2>1. CASE Fetch
    BY <1>0, <2>1, MainStep, SeedProductsAssumption DEF Fetch
  <2>2. CASE CreateProductOnce
    BY <1>0, <2>2, MainStep DEF CreateProductOnce
  <2>3. CASE SeedFails \/ SeedReady
    BY <1>0, <2>3, MainStep DEF SeedFails, SeedReady
  <2> QED BY <1>2, <2>1, <2>2, <2>3 DEF SeedStep
<1>3. CASE Drain \/ Return
  BY <1>0, <1>3, MainStep DEF Drain, Return
<1>4. ASSUME NEW w \in Workers, Launch(w) \/ WorkerStep(w) PROVE Inv'
  BY <1>4, LaunchKeeps, WorkKeeps, ReleaseKeeps, FinishKeeps DEF WorkerStep
<1>5. CASE UNCHANGED vars
  BY <1>0, <1>5, MainStep DEF vars
<1> QED BY <1>1, <1>2, <1>3, <1>4, <1>5 DEF Next

LEMMA InvCorrect == Spec => []Inv
BY InvInit, InvStep, PTL DEF Spec

\* The channel never holds more than its slots nor fewer than none (TypeOK), and sem
\* and wg count the goroutines that are at work and those that are not done.
THEOREM CountersCorrect == Spec => [](TypeOK /\ CountersAgree)
BY InvCorrect, PTL DEF Inv

\* For any number of goroutines, none is under way once main has returned
\* (NothingLeftBehind).
THEOREM NothingIsLeftBehind == Spec => []NothingLeftBehind
BY InvCorrect, PTL DEF Inv

\* For any number of goroutines and slots, no more operations than slots are under way
\* (AtMostConcurrency).
THEOREM ConcurrencyIsBounded == Spec => []AtMostConcurrency
<1>1. Inv => AtMostConcurrency
  BY DEF Inv, CountersAgree, TypeOK, Holders, AtMostConcurrency
<1> QED BY <1>1, InvCorrect, PTL
=============================================================================
