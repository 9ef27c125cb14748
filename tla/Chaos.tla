------------------------------- MODULE Chaos -------------------------------
(***************************************************************************)
(* Fault injection: common.MaybeError for one key.  The calls of a key are *)
(* counted in windows; at the start of a window some positions are drawn,  *)
(* and the calls at those positions fail.  The state of a key is behind a  *)
(* mutex, so a call is one step; keys do not share state.                  *)
(***************************************************************************)
EXTENDS AppErrors, FiniteSets

CONSTANTS
  WindowSize,  \* calls in a window: 20
  MinFail,     \* fewest failures in a window: 2
  MaxFail      \* most failures in a window: 5

ASSUME WindowAssumption ==
  /\ WindowSize \in Nat /\ MinFail \in Nat /\ MaxFail \in Nat
  /\ MinFail <= MaxFail /\ MaxFail < WindowSize

VARIABLES
  requests,   \* calls of the current window
  windowEnd,  \* 0 before the first call
  failAt,     \* the positions that fail
  outcome,    \* what the last call returned: 200 for nil, 0 before the first
  failed,     \* positions of the current window that did fail (history)
  streak      \* failures since the last call that succeeded (history)

vars == <<requests, windowEnd, failAt, outcome, failed, streak>>

\* Mutant: the drawn positions count from 0, the calls from 1.
ZeroBasedFailSets ==
  {S \in SUBSET (0 .. WindowSize - 1) : Cardinality(S) \in MinFail .. MaxFail}

\* buildFailSet: 2 + r.Intn(4) positions of a permutation of the window.
FailSets ==
  {S \in SUBSET (1 .. WindowSize) : Cardinality(S) \in MinFail .. MaxFail}

Init ==
  /\ requests = 0
  /\ windowEnd = 0
  /\ failAt = {}
  /\ outcome = 0
  /\ failed = {}
  /\ streak = 0

\* Mutant: the window is renewed one call too late.
LateWindow == windowEnd = 0 \/ requests > windowEnd

\* Mutant: the end of the window is never remembered.
EndlessWindow == requests >= 0

WindowIsOver == windowEnd = 0 \/ requests >= windowEnd

\* One call at position n of a window with the failing positions S.
CallAt(n, S, before) ==
  /\ requests' = n
  /\ failAt' = S
  /\ \/ /\ n \in S
        /\ outcome' \in InjectedHttp
        /\ failed' = before \cup {n}
        /\ streak' = streak + 1
     \/ /\ n \notin S
        /\ outcome' = 200
        /\ failed' = before
        /\ streak' = 0

FirstCall ==
  /\ WindowIsOver
  /\ windowEnd' = WindowSize
  /\ \E S \in FailSets : CallAt(1, S, {})

NextCall ==
  /\ ~WindowIsOver
  /\ CallAt(requests + 1, failAt, failed)
  /\ UNCHANGED windowEnd

Next == FirstCall \/ NextCall

Spec == Init /\ [][Next]_vars

----------------------------------------------------------------------------
TypeOK ==
  /\ requests \in 0 .. WindowSize
  /\ windowEnd \in {0, WindowSize}
  /\ failAt \in FailSets \cup {{}}
  /\ outcome \in InjectedHttp \cup {0, 200}
  /\ failed \subseteq 1 .. WindowSize
  /\ streak \in Nat

\* A complete window has injected exactly the number of failures it drew, which
\* is neither below the minimum nor above the maximum: no position is skipped
\* or hit twice (MaybeError counts from 1, rand.Perm from 0).
QuotaMet ==
  requests = windowEnd /\ windowEnd > 0 =>
    failed = failAt /\ Cardinality(failed) \in MinFail .. MaxFail

\* Of the calls under a key, whoever makes them, at most 2 * MaxFail fail in a row: the
\* end of one window and the start of the next may, but no window fails as a whole.  A
\* caller that is alone with its key gets through after so many retries.
StreakIsBounded == streak <= 2 * MaxFail
=============================================================================
