------------------------- MODULE GatherBoundedProofs -------------------------
(***************************************************************************)
(* Theorems about GatherBounded, for any number of items and workers.      *)
(*                                                                         *)
(* No item is lost: as long as no worker has failed or been cancelled,     *)
(* what was handed out is either answered or in a worker's hands.  A       *)
(* worker leaves only when everything was handed out, so a call that       *)
(* returns has everything answered.                                        *)
(***************************************************************************)
EXTENDS GatherBounded, TLAPS

Held(i) == \E w \in Workers : holding[w] = i

\* Everything in a worker's hands or in the results was handed out, and a
\* worker is only done when there is nothing left to hand out.
HandedOut ==
  /\ \A w \in Workers : holding[w] # None => holding[w] <= taken
  /\ \A i \in DOMAIN results : results[i] <= taken
  /\ \A w \in Workers : worker[w] = "done" => taken = Total

\* The exceptions to come are gather's outcome.
NothingLost ==
  /\ outcome = "pending" => \A w \in Workers : worker[w] \notin {"failed", "cancelled"}
  /\ outcome = "pending" => \A i \in 1..taken : i \in Answered \/ Held(i)

\* How a call ended.
CallInv ==
  /\ call = "returned" => outcome = "pending" /\ \A w \in Workers : worker[w] = "done"
  /\ call = "cancelled" /\ outcome = "pending" => Alive = {}
  /\ outcome = "cancelled" => asked # {}
  /\ asked # {} => Alive \subseteq asked

IInv == TypeOK /\ WorkedOnce /\ HandedOut /\ NothingLost /\ CallInv

-----------------------------------------------------------------------------
\* The constants, in the form the provers need.
LEMMA Numbers == Total \in Nat /\ None \notin Items /\ None \notin Nat
BY PoolAssumption DEF Items

\* A call that has just created its workers satisfies the invariant.
LEMMA InitIInv == Init => IInv
BY PoolAssumption, Numbers
   DEF Init, IInv, TypeOK, WorkedOnce, HandedOut, NothingLost, CallInv, Answered, Held, Alive, Items

\* Taking the next item keeps everything, whatever the worker had before, as
\* long as what it held is not lost.
LEMMA TakeNextInv ==
  ASSUME IInv, NEW w \in Workers, w \notin asked, worker[w] \in {"new", "busy"},
         TakeNext(w), results' = results \/ results' = Append(results, holding[w]),
         worker[w] = "new" => results' = results,
         worker[w] = "busy" => results' = Append(results, holding[w]),
         UNCHANGED <<asked, outcome, call>>
  PROVE  IInv'
<1>. USE Numbers
<1>1. TypeOK'
  <2>1. results' \in Seq(Items)
    BY DEF IInv, TypeOK
  <2>2. taken' \in 0..Total /\ worker' \in [Workers -> {"new", "busy", "done", "failed", "cancelled"}]
        /\ holding' \in [Workers -> Items \cup {None}]
    BY DEF IInv, TypeOK, TakeNext, Items
  <2>3. \A v \in Workers : worker'[v] = "busy" <=> holding'[v] # None
    BY DEF IInv, TypeOK, TakeNext, Items
  <2>. QED BY <2>1, <2>2, <2>3 DEF IInv, TypeOK
<1>2. \A v \in Workers : v # w => holding'[v] = holding[v] /\ worker'[v] = worker[v]
  BY DEF IInv, TypeOK, TakeNext
<1>3. holding'[w] = None \/ holding'[w] = taken + 1
  BY DEF IInv, TypeOK, TakeNext
<1>4. taken <= taken' /\ (holding'[w] # None => taken' = taken + 1)
  BY <1>3 DEF IInv, TypeOK, TakeNext
<1>5. \A i \in DOMAIN results' : \/ i \in DOMAIN results /\ results'[i] = results[i]
                                 \/ /\ worker[w] = "busy" /\ i = Len(results) + 1
                                    /\ results'[i] = holding[w]
  BY DEF IInv, TypeOK
<1>6. \A i \in DOMAIN results : i \in DOMAIN results' /\ results'[i] = results[i]
  BY DEF IInv, TypeOK
<1>7. \A i \in DOMAIN results : results[i] \in Nat /\ results[i] <= taken
  BY DEF IInv, TypeOK, HandedOut, Items
<1>8. WorkedOnce'
  <2>1. \A i, j \in DOMAIN results' : results'[i] = results'[j] => i = j
    BY <1>5 DEF IInv, WorkedOnce, Answered
  <2>2. \A v \in Workers : holding'[v] \notin Answered'
    <3>1. ASSUME NEW v \in Workers, NEW i \in DOMAIN results', holding'[v] = results'[i]
          PROVE  FALSE
      <4>1. results'[i] \in Nat /\ results'[i] <= taken
        BY <1>5, <1>7 DEF IInv, TypeOK, HandedOut, Items
      <4>2. v # w
        BY <1>3, <3>1, <4>1 DEF IInv, TypeOK
      <4>3. holding[v] = results'[i]
        BY <1>2, <3>1, <4>2
      <4>4. i \notin DOMAIN results
        BY <1>6, <4>3 DEF IInv, WorkedOnce, Answered
      <4>5. holding[v] = holding[w] /\ worker[w] = "busy"
        BY <1>5, <4>3, <4>4
      <4>. QED BY <4>2, <4>5 DEF IInv, WorkedOnce, TypeOK
    <3>. QED BY <3>1 DEF Answered
  <2>3. \A u, v \in Workers : holding'[u] = holding'[v] /\ holding'[u] # None => u = v
    <3>1. \A v \in Workers : holding[v] # None => holding[v] \in Nat /\ holding[v] <= taken
      BY DEF IInv, TypeOK, HandedOut, Items
    <3>. QED BY <1>2, <1>3, <3>1 DEF IInv, WorkedOnce, TypeOK
  <2>. QED BY <2>1, <2>2, <2>3 DEF WorkedOnce
<1>9. HandedOut'
  <2>0. taken \in Nat /\ taken' \in Nat
        /\ \A v \in Workers : holding[v] # None => holding[v] \in Nat /\ holding[v] <= taken
    BY <1>1 DEF IInv, TypeOK, HandedOut, Items
  <2>1. \A v \in Workers : holding'[v] # None => holding'[v] <= taken'
    BY <1>2, <1>3, <1>4, <2>0
  <2>2. \A i \in DOMAIN results' : results'[i] <= taken'
    <3>1. worker[w] = "busy" => holding[w] # None
      BY DEF IInv, TypeOK
    <3>. QED BY <1>4, <1>5, <1>7, <2>0, <3>1
  <2>3. \A v \in Workers : worker'[v] = "done" => taken' = Total
    BY <1>2 DEF IInv, TypeOK, HandedOut, TakeNext
  <2>. QED BY <2>1, <2>2, <2>3 DEF HandedOut
<1>10. NothingLost'
  <2>1. outcome' = "pending" => \A v \in Workers : worker'[v] \notin {"failed", "cancelled"}
    BY <1>2 DEF IInv, TypeOK, NothingLost, TakeNext
  <2>2. ASSUME outcome = "pending", NEW i \in 1..taken'
        PROVE  i \in Answered' \/ Held(i)'
    <3>1. CASE i \in 1..taken /\ i \in Answered
      BY <1>6, <3>1 DEF Answered
    <3>2. CASE i \in 1..taken /\ Held(i)
      <4>1. PICK v \in Workers : holding[v] = i
        BY <3>2 DEF Held
      <4>2. CASE v # w
        BY <1>2, <4>1, <4>2 DEF Held
      <4>3. CASE v = w
        <5>1. worker[w] = "busy"
          BY <4>1, <4>3 DEF IInv, TypeOK
        <5>2. Len(results) + 1 \in DOMAIN results' /\ results'[Len(results) + 1] = i
          BY <4>1, <4>3, <5>1 DEF IInv, TypeOK
        <5>. QED BY <5>2 DEF Answered
      <4>. QED BY <4>2, <4>3
    <3>3. CASE i \notin 1..taken
      <4>1. i = taken + 1 /\ taken < Total
        BY <3>3 DEF IInv, TypeOK, TakeNext
      <4>2. holding'[w] = i
        BY <4>1 DEF IInv, TypeOK, TakeNext
      <4>. QED BY <4>2 DEF Held
    <3>. QED BY <2>2, <3>1, <3>2, <3>3 DEF IInv, NothingLost
  <2>. QED BY <2>1, <2>2 DEF NothingLost
<1>11. CallInv'
  BY <1>2 DEF IInv, TypeOK, CallInv, Alive, TakeNext
<1>. QED BY <1>1, <1>8, <1>9, <1>10, <1>11 DEF IInv

\* A worker that fails or is cancelled drops its item; gather hears of it.
LEMMA WorkerLostInv ==
  ASSUME IInv, NEW w \in Workers, NEW how \in {"failed", "cancelled"},
         how = "cancelled" => w \in asked,
         worker[w] \in {"new", "busy"},
         worker' = [worker EXCEPT ![w] = how], holding' = [holding EXCEPT ![w] = None],
         outcome' \in {"raised", "cancelled"},
         outcome' = "cancelled" => asked # {},
         UNCHANGED <<taken, results, asked, call>>
  PROVE  IInv'
<1>. USE Numbers
<1>1. TypeOK'
  BY DEF IInv, TypeOK
<1>2. WorkedOnce'
  <2>1. None \notin Answered
    BY DEF IInv, TypeOK, Answered
  <2>. QED BY <2>1 DEF IInv, TypeOK, WorkedOnce, Answered
<1>3. HandedOut' /\ NothingLost'
  BY DEF IInv, TypeOK, HandedOut, NothingLost
<1>4. CallInv'
  BY DEF IInv, TypeOK, CallInv, Alive
<1>. QED BY <1>1, <1>2, <1>3, <1>4 DEF IInv

\* The caller's own steps move nothing but the call and who was asked.
LEMMA CallerInv ==
  ASSUME IInv, CancelCall \/ Return \/ Reraise
  PROVE  IInv'
<1>1. TypeOK'
  BY DEF IInv, TypeOK, CancelCall, Return, Reraise, Alive
<1>2. WorkedOnce' /\ HandedOut' /\ NothingLost'
  BY DEF IInv, WorkedOnce, HandedOut, NothingLost, Answered, Held, CancelCall, Return, Reraise
<1>3. CallInv'
  BY PoolAssumption DEF IInv, TypeOK, CallInv, CancelCall, Return, Reraise, Alive
<1>. QED BY <1>1, <1>2, <1>3 DEF IInv

\* Every step preserves the invariant.
LEMMA NextIInv ==
  ASSUME IInv, [Next]_vars
  PROVE  IInv'
<1>1. CASE \E w \in Workers : StartWorker(w)
  BY <1>1, TakeNextInv DEF StartWorker
<1>2. CASE \E w \in Workers : WorkReturns(w)
  BY <1>2, TakeNextInv DEF WorkReturns
<1>3. CASE \E w \in Workers : WorkRaises(w)
  <2>1. PICK w \in Workers : WorkRaises(w)
    BY <1>3
  <2>2. outcome' \in {"raised", "cancelled"} /\ (outcome' = "cancelled" => asked # {})
    BY <2>1 DEF WorkRaises, IInv, TypeOK, CallInv
  <2>. QED BY <2>1, <2>2, WorkerLostInv DEF WorkRaises
<1>4. CASE \E w \in Workers : WorkerCancelled(w)
  <2>1. PICK w \in Workers : WorkerCancelled(w)
    BY <1>4
  <2>2. outcome' \in {"raised", "cancelled"} /\ (outcome' = "cancelled" => asked # {})
    BY <2>1 DEF WorkerCancelled, IInv, TypeOK
  <2>. QED BY <2>1, <2>2, WorkerLostInv DEF WorkerCancelled
<1>5. CASE CancelCall \/ Return \/ Reraise
  BY <1>5, CallerInv
<1>6. CASE UNCHANGED vars
  BY <1>6 DEF vars, IInv, TypeOK, WorkedOnce, HandedOut, NothingLost, CallInv, Answered, Held, Alive
<1>. QED BY <1>1, <1>2, <1>3, <1>4, <1>5, <1>6 DEF Next, WorkerStep

\* The inductive invariant holds in every behaviour of the pool.
THEOREM Invariance == Spec => []IInv
<1>. QED BY InitIInv, NextIInv, PTL DEF Spec

-----------------------------------------------------------------------------
\* TypeOK, for every number of items and of workers.
THEOREM TypeCorrect == Spec => []TypeOK
<1>1. IInv => TypeOK
  BY DEF IInv
<1>. QED BY <1>1, Invariance, PTL

\* WorkedOnce: no interleaving makes the pool work on an item twice.
THEOREM NoItemTwice == Spec => []WorkedOnce
<1>1. IInv => WorkedOnce
  BY DEF IInv
<1>. QED BY <1>1, Invariance, PTL

\* ReturnsEveryItem: a call that returns has answered everything.
THEOREM NothingIsMissing == Spec => []ReturnsEveryItem
<1>1. IInv => ReturnsEveryItem
  <2>. SUFFICES ASSUME IInv, call = "returned" PROVE Answered = Items /\ Alive = {}
    BY DEF ReturnsEveryItem
  <2>1. outcome = "pending" /\ \A w \in Workers : worker[w] = "done"
    BY DEF IInv, CallInv
  <2>2. taken = Total
    BY <2>1, PoolAssumption DEF IInv, HandedOut
  <2>3. \A i \in Items : i \in Answered
    BY <2>1, <2>2, Numbers DEF IInv, NothingLost, Held, TypeOK, Items
  <2>4. Answered \subseteq Items
    BY DEF IInv, TypeOK, Answered
  <2>. QED BY <2>1, <2>3, <2>4 DEF Alive
<1>. QED BY <1>1, Invariance, PTL

\* CancelStopsTheSweep: a cancelled call hands out nothing more.
THEOREM CancelledCallsStop == Spec => CancelStopsTheSweep
<1>1. IInv /\ [Next]_vars => [call = "cancelled" /\ outcome # "raised" => taken' = taken]_vars
  <2>. SUFFICES ASSUME IInv, [Next]_vars, call = "cancelled", outcome # "raised"
                PROVE  taken' = taken
    OBVIOUS
  <2>1. \A w \in Workers : worker[w] \in {"new", "busy"} => w \in asked
    BY DEF IInv, TypeOK, CallInv, Alive
  <2>2. ASSUME NEW w \in Workers PROVE ~StartWorker(w) /\ ~WorkReturns(w)
    BY <2>1 DEF StartWorker, WorkReturns
  <2>. QED BY <2>2 DEF Next, WorkerStep, WorkRaises, WorkerCancelled, CancelCall, Return,
                       Reraise, vars
<1>. QED BY <1>1, Invariance, PTL DEF Spec, CancelStopsTheSweep
=============================================================================
