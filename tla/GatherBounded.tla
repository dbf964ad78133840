---------------------------- MODULE GatherBounded ----------------------------
(***************************************************************************)
(* gather_bounded (src/ipscout/pool.py) and the callers that key its       *)
(* results by item: a fixed set of worker tasks pulls from one iterator.   *)
(* aping_many, ascan_ports, agrab_banners and aread_snmp_system all rest   *)
(* on it.                                                                  *)
(*                                                                         *)
(* A worker runs alone between two suspensions of its work, so recording   *)
(* one result and taking the next item is one step.                        *)
(***************************************************************************)
EXTENDS Naturals, Sequences

CONSTANTS
  Total,     \* how many items there are: 1..Total, in the caller's order
  Workers,   \* one task per slot of the concurrency limit
  None       \* a worker that holds no item

ASSUME PoolAssumption ==
  /\ Total \in Nat
  /\ Workers # {}      \* require_concurrency
  /\ None \notin Nat

Items == 1..Total

VARIABLES
  taken,     \* how many items the iterator has handed out
  worker,    \* "new", "busy", "done", "failed" or "cancelled", per task
  holding,   \* the item a worker is working on
  results,   \* in completion order
  asked,     \* the workers that were asked to cancel
  outcome,   \* of asyncio.gather: "pending", "raised" or "cancelled"
  call       \* the caller: "waiting", "returned", "raised" or "cancelled"

vars == <<taken, worker, holding, results, asked, outcome, call>>

Init ==
  /\ taken = 0
  /\ worker = [w \in Workers |-> "new"]
  /\ holding = [w \in Workers |-> None]
  /\ results = <<>>
  /\ asked = {} /\ outcome = "pending" /\ call = "waiting"

Alive == {w \in Workers : worker[w] \in {"new", "busy"}}

\* Mutant of TakeNext: the iterator hands out one item too many.
TakeNextPastEnd(w) ==
  IF taken <= Total
  THEN /\ taken' = taken + 1
       /\ worker' = [worker EXCEPT ![w] = "busy"]
       /\ holding' = [holding EXCEPT ![w] = taken + 1]
  ELSE /\ worker' = [worker EXCEPT ![w] = "done"]
       /\ holding' = [holding EXCEPT ![w] = None]
       /\ UNCHANGED taken

\* Mutant of TakeNext: an exhausted iterator does not end the worker.
TakeNextOrSpin(w) ==
  IF taken < Total
  THEN /\ taken' = taken + 1
       /\ worker' = [worker EXCEPT ![w] = "busy"]
       /\ holding' = [holding EXCEPT ![w] = taken + 1]
  ELSE /\ worker' = [worker EXCEPT ![w] = "new"]
       /\ holding' = [holding EXCEPT ![w] = None]
       /\ UNCHANGED taken

\* The top of the worker's loop.
TakeNext(w) ==
  IF taken < Total
  THEN /\ taken' = taken + 1
       /\ worker' = [worker EXCEPT ![w] = "busy"]
       /\ holding' = [holding EXCEPT ![w] = taken + 1]
  ELSE /\ worker' = [worker EXCEPT ![w] = "done"]
       /\ holding' = [holding EXCEPT ![w] = None]
       /\ UNCHANGED taken

StartWorker(w) ==
  /\ worker[w] = "new" /\ w \notin asked
  /\ TakeNext(w)
  /\ UNCHANGED <<results, asked, outcome, call>>

\* Mutant of WorkReturns: the result is recorded under the item just handed
\* out, as if the pool completed in order.
WorkReturnsInOrder(w) ==
  /\ worker[w] = "busy" /\ w \notin asked
  /\ results' = Append(results, taken)
  /\ TakeNext(w)
  /\ UNCHANGED <<asked, outcome, call>>

\* Mutant of WorkReturns: a worker takes one item and leaves.
WorkReturnsOnce(w) ==
  /\ worker[w] = "busy" /\ w \notin asked
  /\ results' = Append(results, holding[w])
  /\ worker' = [worker EXCEPT ![w] = "done"]
  /\ holding' = [holding EXCEPT ![w] = None]
  /\ UNCHANGED <<taken, asked, outcome, call>>

WorkReturns(w) ==
  /\ worker[w] = "busy" /\ w \notin asked
  /\ results' = Append(results, holding[w])
  /\ TakeNext(w)
  /\ UNCHANGED <<asked, outcome, call>>

\* The exception ends this worker and is gather's result; the other workers
\* are told nothing and keep pulling items.
WorkRaises(w) ==
  /\ worker[w] = "busy" /\ w \notin asked
  /\ worker' = [worker EXCEPT ![w] = "failed"]
  /\ holding' = [holding EXCEPT ![w] = None]
  /\ outcome' = IF outcome = "pending" THEN "raised" ELSE outcome
  /\ UNCHANGED <<taken, results, asked, call>>

\* Mutant of CancelCall: the workers are not told.
CancelCallOnly ==
  /\ call = "waiting"
  /\ call' = "cancelled"
  /\ UNCHANGED <<taken, worker, holding, results, asked, outcome>>

\* The caller is cancelled. While gather is pending it passes that on to the
\* tasks still running and waits for the first of them to end; with none left,
\* or with an exception already on its way, the caller just ends.
CancelCall ==
  /\ call = "waiting"
  /\ \/ /\ outcome = "pending" /\ Alive # {}
        /\ asked' = Alive /\ UNCHANGED call
     \/ /\ outcome # "pending" \/ Alive = {}
        /\ call' = "cancelled" /\ UNCHANGED asked
  /\ UNCHANGED <<taken, worker, holding, results, outcome>>

WorkerCancelled(w) ==
  /\ w \in asked /\ worker[w] \in {"new", "busy"}
  /\ worker' = [worker EXCEPT ![w] = "cancelled"]
  /\ holding' = [holding EXCEPT ![w] = None]
  /\ outcome' = IF outcome = "pending" THEN "cancelled" ELSE outcome
  /\ UNCHANGED <<taken, results, asked, call>>

Return ==
  /\ call = "waiting" /\ outcome = "pending"
  /\ \A w \in Workers : worker[w] = "done"
  /\ call' = "returned"
  /\ UNCHANGED <<taken, worker, holding, results, asked, outcome>>

Reraise ==
  /\ call = "waiting" /\ outcome # "pending"
  /\ call' = outcome
  /\ UNCHANGED <<taken, worker, holding, results, asked, outcome>>

WorkerStep(w) == StartWorker(w) \/ WorkReturns(w) \/ WorkRaises(w) \/ WorkerCancelled(w)

Next ==
  \/ \E w \in Workers : WorkerStep(w)
  \/ CancelCall \/ Return \/ Reraise

\* Every work item has a timeout of its own, so it ends; the loop runs every
\* task that is ready.
Fairness ==
  /\ \A w \in Workers : WF_vars(WorkerStep(w))
  /\ WF_vars(Return \/ Reraise)

Spec == Init /\ [][Next]_vars /\ Fairness

-----------------------------------------------------------------------------
\* Every variable has its type, and a worker holds an item exactly while busy.
TypeOK ==
  /\ taken \in 0..Total
  /\ worker \in [Workers -> {"new", "busy", "done", "failed", "cancelled"}]
  /\ holding \in [Workers -> Items \cup {None}]
  /\ \A w \in Workers : worker[w] = "busy" <=> holding[w] # None
  /\ results \in Seq(Items)
  /\ asked \subseteq Workers
  /\ outcome \in {"pending", "raised", "cancelled"}
  /\ call \in {"waiting", "returned", "raised", "cancelled"}

Answered == {results[i] : i \in DOMAIN results}

\* However the workers interleave, raise or are cancelled, no item is worked
\* on twice: two workers never hold the same item, none is held once it has a
\* result, and none has two results.
WorkedOnce ==
  /\ \A i, j \in DOMAIN results : results[i] = results[j] => i = j
  /\ \A w \in Workers : holding[w] \notin Answered
  /\ \A v, w \in Workers : holding[v] = holding[w] /\ holding[v] # None => v = w

\* A call that returns has a result for every item, so the mapping rebuilt in
\* the caller's order finds every key, and it leaves nothing running.
ReturnsEveryItem ==
  call = "returned" => Answered = Items /\ Alive = {}

\* Cancelling a call stops its sweep: no item is handed out afterwards. (An
\* exception does not: the other workers never hear of it.)
CancelStopsTheSweep ==
  [][call = "cancelled" /\ outcome # "raised" => taken' = taken]_vars

\* Every call ends.
CallEnds == call = "waiting" ~> call # "waiting"
=============================================================================
