--------------------------- MODULE LoadGenerator ---------------------------
(***************************************************************************)
(* cmd/load-generator: main makes sure that there are products, then, at   *)
(* every tick until its time is up, starts a goroutine that sends one      *)
(* random request, unless Concurrency of them are at work.                 *)
(*                                                                         *)
(* The channel sem counts the goroutines at work, the WaitGroup wg those   *)
(* main has to wait for.  The drawing of an operation under mu is one      *)
(* step: nothing in it can block.                                          *)
(***************************************************************************)
EXTENDS Integers, FiniteSets

CONSTANTS
  Workers,       \* goroutines it may start: a bound on the ticks that count
  Concurrency,   \* cfg.Concurrency
  SeedProducts   \* cfg.SeedProducts

ASSUME WorkersAssumption == IsFiniteSet(Workers)
ASSUME ConcurrencyAssumption == Concurrency \in Nat \ {0}
ASSUME SeedProductsAssumption == SeedProducts \in Nat

VARIABLES
  main,       \* where the goroutine main is
  products,   \* how many products it knows
  expired,    \* ctx is done
  tick,       \* a tick waits in ticker.C, which holds one and drops the rest
  sem,        \* slots taken
  wg,         \* what wg.Wait still waits for
  worker      \* where each goroutine is

loopVars == <<sem, wg, worker>>
vars == <<main, products, expired, tick, loopVars>>

AtWork == {"started", "requesting", "finishing"}

TypeOK ==
  /\ main \in {"fetching", "creating", "looping", "draining", "done", "failed"}
  /\ products \in Nat
  /\ expired \in BOOLEAN
  /\ tick \in BOOLEAN
  /\ sem \in 0 .. Concurrency
  /\ wg \in Nat
  /\ worker \in [Workers -> {"none", "released", "ended"} \cup AtWork]

Init ==
  /\ main = "fetching"
  /\ products = 0
  /\ expired = FALSE
  /\ tick = FALSE
  /\ sem = 0
  /\ wg = 0
  /\ worker = [w \in Workers |-> "none"]

----------------------------------------------------------------------------
(***************************************************************************)
(* The clock                                                               *)
(***************************************************************************)
Expire ==
  /\ ~expired
  /\ expired' = TRUE
  /\ UNCHANGED <<main, products, tick, loopVars>>

Tick ==
  /\ main = "looping"
  /\ ~tick
  /\ tick' = TRUE
  /\ UNCHANGED <<main, products, expired, loopVars>>

----------------------------------------------------------------------------
(***************************************************************************)
(* main                                                                    *)
(***************************************************************************)

\* The products the inventory has: none, or one more than it takes, for example.
Fetch ==
  /\ main = "fetching"
  /\ ~expired
  /\ main' = "creating"
  /\ products' \in 0 .. SeedProducts + 1
  /\ UNCHANGED <<expired, tick, loopVars>>

CreateProductOnce ==
  /\ main = "creating"
  /\ products < SeedProducts
  /\ ~expired
  /\ products' = products + 1
  /\ UNCHANGED <<main, expired, tick, loopVars>>

\* Any request of ensureProducts that fails, or runs out of time, ends the process.
SeedFails ==
  /\ \/ main = "fetching"
     \/ main = "creating" /\ products < SeedProducts
  /\ main' = "failed"
  /\ UNCHANGED <<products, expired, tick, loopVars>>

SeedReady ==
  /\ main = "creating"
  /\ products >= SeedProducts
  /\ main' = "looping"
  /\ UNCHANGED <<products, expired, tick, loopVars>>

\* Mutant: the channel has room for one more.
LaunchOneMore(w) ==
  /\ main = "looping"
  /\ tick
  /\ sem <= Concurrency
  /\ worker[w] = "none"
  /\ worker' = [worker EXCEPT ![w] = "started"]
  /\ sem' = sem + 1
  /\ wg' = wg + 1
  /\ tick' = FALSE
  /\ UNCHANGED <<main, products, expired>>

\* Also when ctx is done: select takes either of two channels that are ready.
Launch(w) ==
  /\ main = "looping"
  /\ tick
  /\ sem < Concurrency
  /\ worker[w] = "none"
  /\ worker' = [worker EXCEPT ![w] = "started"]
  /\ sem' = sem + 1
  /\ wg' = wg + 1
  /\ tick' = FALSE
  /\ UNCHANGED <<main, products, expired>>

\* Every slot is taken: the tick is spent on nothing.
Skip ==
  /\ main = "looping"
  /\ tick
  /\ sem = Concurrency
  /\ tick' = FALSE
  /\ UNCHANGED <<main, products, expired, loopVars>>

Drain ==
  /\ main = "looping"
  /\ expired
  /\ main' = "draining"
  /\ UNCHANGED <<products, expired, tick, loopVars>>

\* Mutant: main waits for the slots instead of the goroutines.
ReturnWhenSlotsAreFree ==
  /\ main = "draining"
  /\ sem = 0
  /\ main' = "done"
  /\ UNCHANGED <<products, expired, tick, loopVars>>

Return ==
  /\ main = "draining"
  /\ wg = 0
  /\ main' = "done"
  /\ UNCHANGED <<products, expired, tick, loopVars>>

----------------------------------------------------------------------------
(***************************************************************************)
(* A goroutine; its two deferred calls run in reverse order                *)
(***************************************************************************)
Goto(w, s) == worker' = [worker EXCEPT ![w] = s]

\* Mutant: the slot is given back before the operation as well as after it.
RequestFreesSlot(w) ==
  /\ worker[w] = "started"
  /\ Goto(w, "requesting")
  /\ sem' = sem - 1
  /\ UNCHANGED <<main, products, expired, tick, wg>>

Request(w) ==
  /\ worker[w] = "started"
  /\ Goto(w, "requesting")
  /\ UNCHANGED <<main, products, expired, tick, sem, wg>>

\* An operation that finds nothing to do, or of which the dice says no.
NoRequest(w) ==
  /\ worker[w] = "started"
  /\ Goto(w, "finishing")
  /\ UNCHANGED <<main, products, expired, tick, sem, wg>>

\* Answered or not: client.Timeout is 10 seconds, and ctx may be done before.
Answered(w) ==
  /\ worker[w] = "requesting"
  /\ Goto(w, "finishing")
  /\ UNCHANGED <<main, products, expired, tick, sem, wg>>

Release(w) ==
  /\ worker[w] = "finishing"
  /\ Goto(w, "released")
  /\ sem' = sem - 1
  /\ UNCHANGED <<main, products, expired, tick, wg>>

\* Mutant: wg.Done is left out.
FinishUncounted(w) ==
  /\ worker[w] = "released"
  /\ Goto(w, "ended")
  /\ UNCHANGED <<main, products, expired, tick, sem, wg>>

Finish(w) ==
  /\ worker[w] = "released"
  /\ Goto(w, "ended")
  /\ wg' = wg - 1
  /\ UNCHANGED <<main, products, expired, tick, sem>>

----------------------------------------------------------------------------
SeedStep == Fetch \/ CreateProductOnce \/ SeedFails \/ SeedReady

WorkerStep(w) ==
  Request(w) \/ NoRequest(w) \/ Answered(w) \/ Release(w) \/ Finish(w)

Next ==
  \/ Expire \/ Tick
  \/ SeedStep \/ Skip \/ Drain \/ Return
  \/ \E w \in Workers : Launch(w) \/ WorkerStep(w)

Spec == Init /\ [][Next]_vars

(***************************************************************************)
(* Time passes, goroutines run, and every request is bounded by the client *)
(* time-out and by ctx.  Drain has a fairness of its own: of two channels  *)
(* that are ready select draws one at random, so that ticks cannot keep    *)
(* main from ctx.Done() for ever.                                          *)
(***************************************************************************)
Fairness ==
  /\ WF_vars(Expire)
  /\ WF_vars(SeedStep)
  /\ WF_vars(Drain)
  /\ WF_vars(Return)
  /\ \A w \in Workers : WF_vars(WorkerStep(w))

FairSpec == Spec /\ Fairness

----------------------------------------------------------------------------
\* No more than Concurrency operations are under way, whatever ticks come while
\* goroutines start and end.
AtMostConcurrency ==
  Cardinality({w \in Workers : worker[w] \in AtWork}) <= Concurrency

\* When main returns, every goroutine it started has ended: no request is cut off
\* half way by the end of the process, and none starts after it.
NothingLeftBehind ==
  main = "done" => \A w \in Workers : worker[w] \in {"none", "ended"}

\* The generator stops some time after its duration, with slow services too.
Stops == <>(main \in {"done", "failed"})
=============================================================================
