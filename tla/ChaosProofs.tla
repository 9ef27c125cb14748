---------------------------- MODULE ChaosProofs ----------------------------
(***************************************************************************)
(* Proofs about Chaos, for windows of any size.                            *)
(***************************************************************************)
EXTENDS Chaos, FiniteSetTheorems, TLAPS

(***************************************************************************)
(* The invariant: the failures so far are the drawn positions reached so   *)
(* far, and a streak that did not begin in this window fills it so far and *)
(* brought at most MaxFail failures from the one before.                   *)
(***************************************************************************)
Reached == failed = failAt \cap (1 .. requests)

Carried == IF Cardinality(failed) < requests THEN 0 ELSE MaxFail

WindowInv ==
  /\ windowEnd = 0 => requests = 0 /\ failAt = {} /\ streak = 0
  /\ windowEnd # 0 => failAt \in FailSets /\ requests > 0
  /\ Reached
  /\ streak <= Cardinality(failed) + Carried

\* The failures of a window are finitely many, at most MaxFail.
LEMMA FailedBound ==
  ASSUME TypeOK, WindowInv
  PROVE  /\ IsFiniteSet(failed)
         /\ Cardinality(failed) \in Nat
         /\ Cardinality(failed) <= MaxFail
<1>1. IsFiniteSet(failAt) /\ Cardinality(failAt) <= MaxFail
  <2>1. CASE windowEnd = 0
    BY <2>1, FS_EmptySet, WindowAssumption DEF WindowInv
  <2>2. CASE windowEnd # 0
    <3>1. failAt \subseteq 1 .. WindowSize /\ Cardinality(failAt) \in MinFail .. MaxFail
      BY <2>2 DEF WindowInv, FailSets
    <3>2. IsFiniteSet(1 .. WindowSize)
      BY FS_Interval, WindowAssumption
    <3>3. IsFiniteSet(failAt)
      BY <3>1, <3>2, FS_Subset
    <3> QED BY <3>1, <3>3, WindowAssumption
  <2> QED BY <2>1, <2>2
<1>2. failed \subseteq failAt
  BY DEF WindowInv, Reached
<1>3. Cardinality(failed) <= Cardinality(failAt) /\ IsFiniteSet(failed)
  BY <1>1, <1>2, FS_Subset
<1>4. Cardinality(failed) \in Nat /\ Cardinality(failAt) \in Nat
  BY <1>1, <1>3, FS_CardinalityType
<1> QED BY <1>1, <1>3, <1>4, WindowAssumption

LEMMA TypeStep == TypeOK /\ WindowInv /\ [Next]_vars => TypeOK'
<1> SUFFICES ASSUME TypeOK, WindowInv, [Next]_vars PROVE TypeOK'
  OBVIOUS
<1> USE WindowAssumption DEF TypeOK, WindowInv
<1>1. CASE FirstCall
  BY <1>1 DEF FirstCall, CallAt
<1>2. CASE NextCall
  <2>1. requests + 1 \in 1 .. WindowSize
    BY <1>2 DEF NextCall, WindowIsOver
  <2>2. CallAt(requests + 1, failAt, failed) /\ windowEnd' = windowEnd
    BY <1>2 DEF NextCall
  <2>3. failed' \subseteq 1 .. WindowSize
    <3> DEFINE n == requests + 1
               W == 1 .. WindowSize
    <3>1. n \in W /\ failed \subseteq W
      BY <2>1
    <3>2. failed' = failed \cup {n} \/ failed' = failed
      BY <2>2 DEF CallAt
    <3> HIDE DEF n, W
    <3>3. failed' \subseteq W
      BY <3>1, <3>2
    <3> QED BY <3>3 DEF W
  <2>4. requests' \in 0 .. WindowSize /\ streak' \in Nat
    BY <2>1, <2>2 DEF CallAt
  <2>5. outcome' \in InjectedHttp \cup {0, 200} /\ failAt' = failAt
    BY <2>2 DEF CallAt
  <2> QED BY <2>2, <2>3, <2>4, <2>5
<1>3. CASE UNCHANGED vars
  BY <1>3 DEF vars
<1> QED BY <1>1, <1>2, <1>3 DEF Next

LEMMA WindowStep == TypeOK /\ WindowInv /\ [Next]_vars => WindowInv'
<1> SUFFICES ASSUME TypeOK, WindowInv, [Next]_vars PROVE WindowInv'
  OBVIOUS
<1>0. /\ IsFiniteSet(failed)
      /\ Cardinality(failed) \in Nat
      /\ Cardinality(failed) <= MaxFail
  BY FailedBound
<1>1. CASE FirstCall
  <2>1. PICK S \in FailSets : CallAt(1, S, {})
    BY <1>1 DEF FirstCall
  <2>2. windowEnd' # 0 /\ failAt' \in FailSets /\ requests' = 1 /\ failAt' = S
    BY <1>1, <2>1, WindowAssumption DEF FirstCall, CallAt
  <2>3. streak <= MaxFail
    <3>1. CASE windowEnd = 0
      BY <3>1, WindowAssumption DEF WindowInv
    <3>2. CASE windowEnd # 0
      <4>1. requests = WindowSize
        BY <1>1, <3>2, WindowAssumption DEF FirstCall, WindowIsOver, TypeOK
      <4>2. Carried = 0
        BY <4>1, <1>0, WindowAssumption DEF Carried
      <4> QED BY <4>2, <1>0, WindowAssumption DEF WindowInv, TypeOK
    <3> QED BY <3>1, <3>2
  <2>4. CASE 1 \in S
    <3>1. failed' = {1} /\ streak' = streak + 1
      BY <2>1, <2>4 DEF CallAt
    <3>2. Cardinality(failed') = 1
      BY <3>1, FS_Singleton
    <3>3. Carried' = MaxFail
      BY <3>2, <2>2 DEF Carried
    <3>4. Reached'
      BY <2>2, <2>4, <3>1 DEF Reached
    <3>5. streak' <= Cardinality(failed)' + Carried'
      BY <2>3, <3>1, <3>2, <3>3, WindowAssumption DEF TypeOK
    <3> QED BY <2>2, <3>4, <3>5 DEF WindowInv
  <2>5. CASE 1 \notin S
    <3>1. failed' = {} /\ streak' = 0
      BY <2>1, <2>5 DEF CallAt
    <3>2. Cardinality(failed') = 0 /\ Carried' = 0
      BY <3>1, <2>2, FS_EmptySet DEF Carried
    <3>3. Reached'
      BY <2>2, <2>5, <3>1 DEF Reached
    <3> QED BY <2>2, <3>1, <3>2, <3>3 DEF WindowInv
  <2> QED BY <2>4, <2>5
<1>2. CASE NextCall
  <2> DEFINE n == requests + 1
  <2>1. CallAt(n, failAt, failed) /\ windowEnd' = windowEnd /\ windowEnd # 0
    BY <1>2 DEF NextCall, WindowIsOver
  <2>2. failAt' = failAt /\ requests' = n /\ n > 0 /\ n \in Nat
    BY <2>1, WindowAssumption DEF CallAt, TypeOK
  <2>3. failAt \in FailSets /\ Reached
    BY <2>1 DEF WindowInv
  <2>4. 1 .. n = (1 .. requests) \cup {n} /\ n \notin 1 .. requests
    BY WindowAssumption DEF TypeOK
  <2>5. CASE n \in failAt
    <3>1. failed' = failed \cup {n} /\ streak' = streak + 1
      BY <2>1, <2>5 DEF CallAt
    <3>2. n \notin failed
      BY <2>3, <2>4 DEF Reached
    <3>3. Cardinality(failed') = Cardinality(failed) + 1
      BY <3>1, <3>2, <1>0, FS_AddElement
    <3>4. Carried' = Carried
      BY <3>3, <2>2, <1>0, WindowAssumption DEF Carried, TypeOK
    <3>5. Reached'
      BY <2>2, <2>3, <2>4, <2>5, <3>1 DEF Reached
    <3>6. streak' <= Cardinality(failed)' + Carried'
      BY <3>1, <3>3, <3>4, <1>0, WindowAssumption DEF WindowInv, TypeOK, Carried
    <3> QED BY <2>1, <2>2, <2>3, <3>5, <3>6 DEF WindowInv
  <2>6. CASE n \notin failAt
    <3>1. failed' = failed /\ streak' = 0
      BY <2>1, <2>6 DEF CallAt
    <3>2. Reached'
      BY <2>2, <2>3, <2>4, <2>6, <3>1 DEF Reached
    <3>3. streak' <= Cardinality(failed)' + Carried'
      BY <3>1, <1>0, WindowAssumption DEF Carried
    <3> QED BY <2>1, <2>2, <2>3, <3>2, <3>3 DEF WindowInv
  <2> QED BY <2>5, <2>6
<1>3. CASE UNCHANGED vars
  BY <1>3 DEF vars, WindowInv, Reached, Carried
<1> QED BY <1>1, <1>2, <1>3 DEF Next

LEMMA WindowCorrect == Spec => [](TypeOK /\ WindowInv)
<1>1. Init => TypeOK /\ WindowInv
  <2> SUFFICES ASSUME Init PROVE TypeOK /\ WindowInv
    OBVIOUS
  <2>1. TypeOK
    BY WindowAssumption DEF Init, TypeOK
  <2>2. Carried \in Nat /\ Cardinality(failed) = 0
    BY WindowAssumption, FS_EmptySet DEF Init, Carried
  <2> QED BY <2>1, <2>2 DEF Init, WindowInv, Reached
<1>2. TypeOK /\ WindowInv /\ [Next]_vars => TypeOK' /\ WindowInv'
  BY TypeStep, WindowStep
<1> QED BY <1>1, <1>2, PTL DEF Spec

\* The state of a key keeps its type: the count never leaves the window.
THEOREM ChaosTypeCorrect == Spec => []TypeOK
BY WindowCorrect, PTL

\* A complete window has failed at exactly the positions it drew (QuotaMet).
THEOREM QuotaIsMet == Spec => []QuotaMet
<1>1. TypeOK /\ WindowInv => QuotaMet
  <2> SUFFICES ASSUME TypeOK, WindowInv, requests = windowEnd, windowEnd > 0
               PROVE  failed = failAt /\ Cardinality(failed) \in MinFail .. MaxFail
    BY DEF QuotaMet
  <2>1. requests = WindowSize
    BY WindowAssumption DEF TypeOK
  <2>2. failAt \in FailSets
    BY DEF WindowInv
  <2>3. failed = failAt
    BY <2>1, <2>2 DEF WindowInv, Reached, FailSets
  <2> QED BY <2>2, <2>3 DEF FailSets
<1> QED BY <1>1, WindowCorrect, PTL

\* No more than 2 * MaxFail calls of a key fail in a row (StreakIsBounded).
THEOREM StreaksEnd == Spec => []StreakIsBounded
<1>1. TypeOK /\ WindowInv => StreakIsBounded
  <2> SUFFICES ASSUME TypeOK, WindowInv PROVE streak <= 2 * MaxFail
    BY DEF StreakIsBounded
  <2>1. Cardinality(failed) \in Nat /\ Cardinality(failed) <= MaxFail
    BY FailedBound
  <2>2. Carried \in 0 .. MaxFail
    BY <2>1, WindowAssumption DEF Carried, TypeOK
  <2> QED BY <2>1, <2>2, WindowAssumption DEF WindowInv, TypeOK
<1> QED BY <1>1, WindowCorrect, PTL
=============================================================================
