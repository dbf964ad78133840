--------------------------- MODULE ProbeRunProofs ---------------------------
(***************************************************************************)
(* Theorems about ProbeRun, for any number of probes, a ping or a walk,    *)
(* either kind of socket, and any network.                                 *)
(*                                                                         *)
(* The inductive invariant IInv says what the packets in the two queues    *)
(* can be (QueuesInv), that only the running probe is pending (CallInv),   *)
(* that what ended a wait, or is about to, answers it (OwnInv), and that   *)
(* the probes were made in order, none behind the target (OrderInv).       *)
(***************************************************************************)
EXTENDS ProbeRun, IcmpAnswersProofs

QueuesInv == inbox \in Seq(Genuine) /\ errQueue \in Seq(Genuine)

CallInv ==
  /\ \A p \in Probes : stage[p] = "pending" <=> running = p
  /\ \A p \in Probes : sentWith[p] # NoTtl => stage[p] # "new"
  /\ \A p \in Probes : stage[p] # "ended" => result[p] = Unanswered /\ cause[p] = Nothing

\* e is from the network, about p, and AnswerIn or Concerns found it to be.
Answers(e, p) == e \in About(p) /\ (e.kind = "reply" \/ Concerns(e, p))

OwnInv ==
  /\ mine # Nothing => running \in Probes /\ Answers(mine, running)
  /\ \A p \in Probes : cause[p] # Nothing => Answers(cause[p], p)
  /\ \A p \in Probes : result[p] # Unanswered =>
       cause[p] # Nothing /\ result[p] = cause[p] /\ result[p].kind # "undelivered"

OrderInv ==
  /\ \A p \in Probes : /\ p < Current => stage[p] = "ended"
                       /\ p > Current => stage[p] = "new"
  /\ \A i \in DOMAIN outcomes : outcomes[i] = result[i]
  /\ \A p \in Probes : stage[p] # "new" => \A q \in 1..(p - 1) : ~Reached(q)
  /\ ~over => Current \in Probes /\ \A q \in 1..Len(outcomes) : ~Reached(q)

IInv == TypeOK /\ QueuesInv /\ CallInv /\ OwnInv /\ OrderInv

-----------------------------------------------------------------------------
\* The matching rule credits a genuine packet to the probe it is about, in a
\* run that numbers its probes differently.
LEMMA MatchIsOwn ==
  ASSUME NEW e \in Genuine, NEW p \in Probes, AnswerIn(e, p) \/ Concerns(e, p)
  PROVE  Answers(e, p) /\ e.about = p
<1>1. CASE e.kind = "reply"
  <2>1. e.token = p
    BY <1>1 DEF AnswerIn, Concerns, IsError
  <2>2. e.about \in Probes \cup {Stranger}
    BY DEF Genuine, Packets
  <2>3. e.about = p
    BY <1>1, <2>1, <2>2, ProbesAssumption DEF Genuine
  <2>. QED BY <1>1, <2>3, GenuineAbout DEF Answers
<1>2. CASE e.kind # "reply"
  <2>1. Concerns(e, p)
    BY <1>2 DEF AnswerIn
  <2>2. e.about \in Probes \cup {Stranger}
    BY DEF Genuine, Packets
  <2>3. ASSUME e.about \in Probes PROVE e.about = p
    BY <2>1, <2>3, RunAssumption DEF Genuine, Concerns
  <2>4. e.about # Stranger
    BY <2>1, ProbesAssumption DEF Genuine, Concerns
  <2>5. e.about = p
    BY <2>2, <2>3, <2>4
  <2>. QED BY <2>1, <2>5, GenuineAbout DEF Answers
<1>. QED BY <1>1, <1>2

\* What the network says about a probe is a packet about that probe.
LEMMA AboutPackets ==
  ASSUME NEW p \in Probes, NEW e \in About(p)
  PROVE  e \in Packets /\ e \in Genuine /\ e.about = p
BY ProbesAssumption DEF About, Packets, Kinds, Genuine, IsError

-----------------------------------------------------------------------------
\* A new run satisfies the invariant.
LEMMA InitIInv == Init => IInv
<1>. SUFFICES ASSUME Init PROVE IInv
  OBVIOUS
<1>. USE DEF Init, TransportInit
<1>1. TypeOK
  <2>1. inbox \in Seq(Packets) /\ errQueue \in Seq(Packets)
    OBVIOUS
  <2>2. hop \in Nat \ {NoTtl} /\ arrivals \in Nat
    BY ProbesAssumption
  <2>3. sentWith \in [Probes -> Nat]
    BY DEF NoTtl
  <2>4. stage \in [Probes -> {"new", "pending", "ended"}]
    OBVIOUS
  <2>5. result \in [Probes -> Packets \cup {Unanswered}] /\ cause \in [Probes -> Packets \cup {Nothing}]
    OBVIOUS
  <2>6. outcomes \in Seq(Packets \cup {Unanswered}) /\ Len(outcomes) <= Last
    BY RunAssumption
  <2>7. running \in Probes \cup {Nobody} /\ attempt \in 0..2 /\ mine \in Packets \cup {Nothing}
    OBVIOUS
  <2>8. step \in {"clear", "send", "resend", "recv", "inquire"}
    OBVIOUS
  <2>9. sockErr \in BOOLEAN /\ sawError \in BOOLEAN /\ over \in BOOLEAN
    OBVIOUS
  <2>. QED BY <2>1, <2>2, <2>3, <2>4, <2>5, <2>6, <2>7, <2>8, <2>9 DEF TypeOK, TransportTypeOK
<1>2. QueuesInv
  BY DEF QueuesInv
<1>3. CallInv
  BY SocketAssumption DEF CallInv
<1>4. OwnInv
  BY DEF OwnInv
<1>5. OrderInv
  BY RunAssumption DEF OrderInv, Current
<1>. QED BY <1>1, <1>2, <1>3, <1>4, <1>5 DEF IInv

-----------------------------------------------------------------------------
\* A step that leaves the outcomes alone, as seen by each part of IInv.
LEMMA QuietOrder ==
  ASSUME OrderInv, UNCHANGED <<stage, result, outcomes, over>>
  PROVE  OrderInv'
BY DEF OrderInv, Current, Reached

\* A step that neither ends a probe nor finds an answer.
LEMMA QuietOwn ==
  ASSUME OwnInv, UNCHANGED <<result, cause>>, mine' = Nothing \/ UNCHANGED <<mine, running>>
  PROVE  OwnInv'
BY DEF OwnInv

\* What the kernel does leaves the caller's side alone.
LEMMA ArrivalInv ==
  ASSUME IInv, Arrival, UNCHANGED <<outcomes, over>>
  PROVE  IInv'
<1>. USE DEF kernel, call, outcome
<1>0. UNCHANGED <<hop, sentWith, running, step, attempt, sawError, mine, stage, result, cause>>
  BY DEF Arrival, DatagramArrives, ErrorArrives, SocketFails
<1>a. Sent \in SUBSET Probes
  BY DEF Sent
<1>1. \/ UNCHANGED <<inbox, errQueue>>
      \/ UNCHANGED errQueue /\ \E d \in Genuine : inbox' = Append(inbox, d)
      \/ UNCHANGED inbox /\ \E e \in Genuine : errQueue' = Append(errQueue, e)
  BY <1>a, Delivered DEF Arrival, DatagramArrives, ErrorArrives, SocketFails
<1>2. QueuesInv'
  BY <1>1, QueueSteps DEF IInv, QueuesInv
<1>3. inbox' \in Seq(Packets) /\ errQueue' \in Seq(Packets)
  <2>1. inbox \in Seq(Packets) /\ errQueue \in Seq(Packets)
    BY DEF IInv, TypeOK, TransportTypeOK
  <2>. QED BY <1>1, <2>1, QueueSteps, GenuineArePackets
<1>4. sockErr' \in BOOLEAN
  BY DEF Arrival, DatagramArrives, ErrorArrives, SocketFails, IInv, TypeOK, TransportTypeOK
<1>5. arrivals' \in Nat
  BY DEF Arrival, DatagramArrives, ErrorArrives, SocketFails, IInv, TypeOK, TransportTypeOK
<1>6. TypeOK'
  BY <1>0, <1>3, <1>4, <1>5 DEF IInv, TypeOK, TransportTypeOK
<1>7. CallInv'
  BY <1>0 DEF IInv, CallInv
<1>8. OwnInv' /\ OrderInv'
  BY <1>0, QuietOwn, QuietOrder DEF IInv
<1>. QED BY <1>2, <1>6, <1>7, <1>8 DEF IInv

\* The next probe begins; those before it have ended short of the target.
LEMMA StartProbeInv ==
  ASSUME IInv, StartProbe
  PROVE  IInv'
<1>. USE DEF StartProbe, Begin
<1>0. Current \in Probes /\ Current' = Current
  BY DEF IInv, OrderInv, Current
<1>1. hop' \in Nat \ {NoTtl}
  BY <1>0, ProbesAssumption DEF IInv, TypeOK, TransportTypeOK, HopLimited
<1>2. stage' \in [Probes -> {"new", "pending", "ended"}]
  BY DEF IInv, TypeOK, TransportTypeOK
<1>3. running' \in Probes \cup {Nobody} /\ attempt' \in 0..2 /\ mine' \in Packets \cup {Nothing}
  BY <1>0
<1>4. step' \in {"clear", "send", "resend", "recv", "inquire"}
  OBVIOUS
<1>5. sawError' \in BOOLEAN
  OBVIOUS
<1>6. TypeOK'
  BY <1>1, <1>2, <1>3, <1>4, <1>5 DEF IInv, TypeOK, TransportTypeOK
<1>7. QueuesInv'
  BY DEF IInv, QueuesInv
<1>8. CallInv'
  BY <1>0, SocketAssumption DEF IInv, CallInv, TypeOK, TransportTypeOK
<1>9. OwnInv'
  BY QuietOwn DEF IInv
<1>10. OrderInv'
  <2>1. \A p \in Probes : /\ p < Current' => stage'[p] = "ended"
                          /\ p > Current' => stage'[p] = "new"
    BY <1>0, RunAssumption DEF IInv, OrderInv, TypeOK, TransportTypeOK
  <2>2. \A q \in Probes : Reached(q)' <=> Reached(q)
    BY DEF Reached
  <2>3. \A p \in Probes : stage'[p] # "new" => \A q \in 1..(p - 1) : ~Reached(q)'
    <3>. SUFFICES ASSUME NEW p \in Probes, stage'[p] # "new", NEW q \in 1..(p - 1)
                  PROVE  ~Reached(q)'
      OBVIOUS
    <3>1. q \in Probes
      BY RunAssumption
    <3>2. CASE p = Current
      <4>1. q \in 1..Len(outcomes)
        BY <3>2, RunAssumption DEF Current, IInv, TypeOK
      <4>. QED BY <4>1, <3>1, <2>2 DEF IInv, OrderInv
    <3>3. CASE p # Current
      BY <3>3, <3>1, <2>2 DEF IInv, OrderInv, TypeOK, TransportTypeOK
    <3>. QED BY <3>2, <3>3
  <2>4. \A i \in DOMAIN outcomes' : outcomes'[i] = result'[i]
    BY DEF IInv, OrderInv
  <2>5. ~over' => Current' \in Probes /\ \A q \in 1..Len(outcomes') : ~Reached(q)'
    <3>1. \A q \in 1..Len(outcomes) : q \in Probes
      BY RunAssumption DEF IInv, TypeOK
    <3>. QED BY <1>0, <2>2, <3>1 DEF IInv, OrderInv
  <2>. QED BY <2>1, <2>3, <2>4, <2>5 DEF OrderInv
<1>. QED BY <1>6, <1>7, <1>8, <1>9, <1>10 DEF IInv

\* One entry is read off the error queue; one that concerns the probe may be
\* kept.
LEMMA ReadErrorInv ==
  ASSUME IInv, ReadError, UNCHANGED <<outcomes, over>>
  PROVE  IInv'
<1>. USE DEF ReadError, outcome
<1>0. running \in Probes
  BY DEF IInv, TypeOK, TransportTypeOK
<1>1. Head(errQueue) \in Genuine /\ QueuesInv'
  BY QueueSteps DEF IInv, QueuesInv
<1>2. Head(errQueue) \in Packets /\ errQueue' \in Seq(Packets)
  BY QueueSteps DEF IInv, TypeOK, TransportTypeOK
<1>3. mine' \in Packets \cup {Nothing}
  BY <1>2 DEF IInv, TypeOK, TransportTypeOK
<1>4. sockErr' \in BOOLEAN /\ sawError' \in BOOLEAN
  OBVIOUS
<1>5. TypeOK'
  BY <1>2, <1>3, <1>4 DEF IInv, TypeOK, TransportTypeOK
<1>6. CallInv'
  BY DEF IInv, CallInv
<1>7. OwnInv'
  <2>1. CASE mine' = mine
    BY <2>1, QuietOwn DEF IInv
  <2>2. CASE mine' # mine
    <3>1. mine' = Head(errQueue) /\ Concerns(Head(errQueue), running)
      BY <2>2
    <3>2. Answers(mine', running)
      BY <3>1, <1>0, <1>1, MatchIsOwn
    <3>. QED BY <3>2, <1>0 DEF IInv, OwnInv
  <2>. QED BY <2>1, <2>2
<1>8. OrderInv'
  BY QuietOrder DEF IInv
<1>. QED BY <1>1, <1>5, <1>6, <1>7, <1>8 DEF IInv

\* A step of the running call that does not end it.
LEMMA CallGoesOnInv ==
  ASSUME IInv, NEW p \in Probes, UNCHANGED <<outcomes, over>>,
         \/ Cleared(p) \/ SendAccepted(p) \/ SendRefused(p) \/ Resend(p)
         \/ ReceiveRaises(p) \/ WaitGoesOn(p)
  PROVE  IInv'
<1>. USE DEF kernel, outcome, GoTo
<1>0. UNCHANGED <<inbox, hop, arrivals, running, stage, result, cause>> /\ mine' = Nothing /\ running = p
  BY DEF Cleared, SendAccepted, SendRefused, Resend, ReceiveRaises, WaitGoesOn
<1>1. UNCHANGED errQueue \/ \E e \in Genuine : errQueue' = Append(errQueue, e)
  BY AboutPackets DEF Cleared, SendAccepted, SendRefused, Resend, ReceiveRaises, WaitGoesOn
<1>2. UNCHANGED sentWith \/ sentWith' = [sentWith EXCEPT ![p] = hop]
  BY DEF Cleared, SendAccepted, SendRefused, Resend, ReceiveRaises, WaitGoesOn
<1>3. QueuesInv'
  BY <1>0, <1>1, QueueSteps DEF IInv, QueuesInv
<1>4. errQueue' \in Seq(Packets)
  <2>1. errQueue \in Seq(Packets)
    BY DEF IInv, TypeOK, TransportTypeOK
  <2>. QED BY <1>1, <2>1, QueueSteps, GenuineArePackets
<1>5. sentWith' \in [Probes -> Nat]
  BY <1>2 DEF IInv, TypeOK, TransportTypeOK
<1>6. attempt' \in 0..2
  BY DEF Cleared, SendAccepted, SendRefused, Resend, ReceiveRaises, WaitGoesOn, IInv, TypeOK, TransportTypeOK
<1>7. step' \in {"clear", "send", "resend", "recv", "inquire"}
  BY DEF Cleared, SendAccepted, SendRefused, Resend, ReceiveRaises, WaitGoesOn
<1>8. sockErr' \in BOOLEAN /\ sawError' \in BOOLEAN
  BY DEF Cleared, SendAccepted, SendRefused, Resend, ReceiveRaises, WaitGoesOn, IInv, TypeOK, TransportTypeOK
<1>9. TypeOK'
  BY <1>0, <1>4, <1>5, <1>6, <1>7, <1>8 DEF IInv, TypeOK, TransportTypeOK
<1>10. CallInv'
  BY <1>0, <1>2 DEF IInv, CallInv, TypeOK, TransportTypeOK
<1>11. OwnInv' /\ OrderInv'
  BY <1>0, QuietOwn, QuietOrder DEF IInv
<1>. QED BY <1>3, <1>9, <1>10, <1>11 DEF IInv

\* The running probe ends, with a packet that answers it or with none.
EndsWith(p, packet) ==
  /\ running = p /\ packet \in Packets \cup {Nothing}
  /\ packet # Nothing => Answers(packet, p)
  /\ Finish(p, packet)
  /\ inbox' = inbox \/ (inbox # <<>> /\ inbox' = Tail(inbox))
  /\ UNCHANGED <<errQueue, sockErr, hop, sentWith, arrivals, outcomes, over>>

\* Such a step preserves the invariant.
LEMMA FinishInv ==
  ASSUME IInv, NEW p \in Probes, NEW packet, EndsWith(p, packet)
  PROVE  IInv'
<1>. USE DEF EndsWith, Finish
<1>1. QueuesInv'
  BY QueueSteps DEF IInv, QueuesInv
<1>2. inbox' \in Seq(Packets)
  <2>1. inbox \in Seq(Packets)
    BY DEF IInv, TypeOK, TransportTypeOK
  <2>. QED BY <2>1, QueueSteps
<1>3. stage' \in [Probes -> {"new", "pending", "ended"}]
  BY DEF IInv, TypeOK, TransportTypeOK
<1>4. cause' \in [Probes -> Packets \cup {Nothing}]
  BY DEF IInv, TypeOK, TransportTypeOK
<1>5. result' \in [Probes -> Packets \cup {Unanswered}]
  BY DEF IInv, TypeOK, TransportTypeOK
<1>6. running' \in Probes \cup {Nobody} /\ attempt' \in 0..2 /\ mine' \in Packets \cup {Nothing}
  OBVIOUS
<1>7. sawError' \in BOOLEAN
  OBVIOUS
<1>8. step' \in {"clear", "send", "resend", "recv", "inquire"}
  OBVIOUS
<1>9. TypeOK'
  BY <1>2, <1>3, <1>4, <1>5, <1>6, <1>7, <1>8 DEF IInv, TypeOK, TransportTypeOK
<1>10. CallInv'
  BY SocketAssumption DEF IInv, CallInv, TypeOK, TransportTypeOK
<1>11. OwnInv'
  BY SocketAssumption DEF IInv, OwnInv, TypeOK, TransportTypeOK
<1>12. OrderInv'
  <2>1. stage[p] = "pending"
    BY DEF IInv, CallInv
  <2>2. p = Current
    BY <2>1, RunAssumption DEF IInv, OrderInv, TypeOK, Current
  <2>3. \A q \in Probes : q # p => (Reached(q)' <=> Reached(q))
    BY DEF Reached, IInv, TypeOK, TransportTypeOK
  <2>4. \A q \in 1..Len(outcomes) : q \in Probes /\ q # p
    BY <2>2, RunAssumption DEF IInv, TypeOK, Current
  <2>5. \A r \in Probes : /\ r < Current' => stage'[r] = "ended"
                          /\ r > Current' => stage'[r] = "new"
    BY <2>2, RunAssumption DEF IInv, OrderInv, TypeOK, TransportTypeOK, Current
  <2>6. \A i \in DOMAIN outcomes' : outcomes'[i] = result'[i]
    <3>1. DOMAIN outcomes = 1..Len(outcomes)
      BY DEF IInv, TypeOK
    <3>. QED BY <2>4, <3>1 DEF IInv, OrderInv, TypeOK, TransportTypeOK
  <2>7. \A r \in Probes : stage'[r] # "new" => \A q \in 1..(r - 1) : ~Reached(q)'
    <3>. SUFFICES ASSUME NEW r \in Probes, stage'[r] # "new", NEW q \in 1..(r - 1)
                  PROVE  ~Reached(q)'
      OBVIOUS
    <3>1. q \in Probes /\ q < r
      BY RunAssumption
    <3>2. stage[r] # "new"
      BY <2>1 DEF IInv, TypeOK, TransportTypeOK
    <3>3. ~Reached(q)
      BY <3>2 DEF IInv, OrderInv
    <3>4. q # p
      BY <3>1, <3>2, <2>2, RunAssumption DEF IInv, OrderInv, Current
    <3>. QED BY <3>1, <3>3, <3>4, <2>3
  <2>8. ~over' => Current' \in Probes /\ \A q \in 1..Len(outcomes') : ~Reached(q)'
    BY <2>3, <2>4 DEF IInv, OrderInv, Current
  <2>. QED BY <2>5, <2>6, <2>7, <2>8 DEF OrderInv
<1>. QED BY <1>1, <1>9, <1>10, <1>11, <1>12 DEF IInv

\* A datagram ends the wait if it answers, and is forgotten if it does not.
LEMMA ReceiveInv ==
  ASSUME IInv, NEW p \in Probes, Receive(p), UNCHANGED <<outcomes, over>>
  PROVE  IInv'
<1>1. Head(inbox) \in Genuine /\ Head(inbox) \in Packets
  BY QueueSteps, GenuineArePackets DEF Receive, IInv, QueuesInv
<1>2. CASE AnswerIn(Head(inbox), p)
  <2>1. Answers(Head(inbox), p)
    BY <1>1, <1>2, MatchIsOwn
  <2>2. EndsWith(p, Head(inbox))
    BY <1>1, <1>2, <2>1 DEF EndsWith, Receive
  <2>. QED BY <2>2, FinishInv
<1>3. CASE ~AnswerIn(Head(inbox), p)
  <2>1. UNCHANGED <<errQueue, sockErr, hop, sentWith, arrivals, running, step, attempt,
                    sawError, mine, stage, result, cause>>
    BY <1>3 DEF Receive, call, outcome
  <2>2. inbox' \in Seq(Genuine) /\ inbox' \in Seq(Packets)
    BY QueueSteps DEF Receive, IInv, QueuesInv, TypeOK, TransportTypeOK
  <2>3. TypeOK' /\ QueuesInv' /\ CallInv'
    BY <2>1, <2>2 DEF IInv, TypeOK, TransportTypeOK, QueuesInv, CallInv
  <2>4. OwnInv' /\ OrderInv'
    BY <2>1, QuietOwn, QuietOrder DEF IInv
  <2>. QED BY <2>3, <2>4 DEF IInv
<1>. QED BY <1>2, <1>3

\* The call gives the probe up, or ends it with the error that is its own.
LEMMA WaitEndsInv ==
  ASSUME IInv, NEW p \in Probes, UNCHANGED <<outcomes, over>>,
         SendFailed(p) \/ ErrorEndsWait(p) \/ TimeUp(p)
  PROVE  IInv'
<1>1. /\ running = p /\ inbox' = inbox
      /\ UNCHANGED <<errQueue, sockErr, hop, sentWith, arrivals, outcomes, over>>
  BY DEF SendFailed, ErrorEndsWait, TimeUp, kernel
<1>2. CASE Finish(p, Nothing)
  <2>1. EndsWith(p, Nothing)
    BY <1>1, <1>2 DEF EndsWith
  <2>. QED BY <2>1, FinishInv
<1>3. CASE Finish(p, mine)
  <2>1. mine # Nothing => Answers(mine, p)
    BY <1>1 DEF IInv, OwnInv
  <2>2. mine \in Packets \cup {Nothing}
    BY DEF IInv, TypeOK, TransportTypeOK
  <2>3. EndsWith(p, mine)
    BY <1>1, <1>3, <2>1, <2>2 DEF EndsWith
  <2>. QED BY <2>3, FinishInv
<1>. QED BY <1>2, <1>3 DEF SendFailed, ErrorEndsWait, TimeUp

\* The outcome of the current probe is recorded; the run is over behind the
\* target and behind the last probe.
LEMMA RecordOutcomeInv ==
  ASSUME IInv, RecordOutcome
  PROVE  IInv'
<1>. USE DEF RecordOutcome
<1>0. UNCHANGED <<inbox, errQueue, sockErr, hop, sentWith, arrivals, running, step, attempt,
                  sawError, mine, stage, result, cause>>
  BY DEF transportVars
<1>1. Current \in Probes /\ Current = Len(outcomes) + 1 /\ Len(outcomes) \in Nat
  BY DEF IInv, OrderInv, Current, TypeOK
<1>2. /\ outcomes' \in Seq(Packets \cup {Unanswered})
      /\ Len(outcomes') = Current
      /\ \A i \in 1..Len(outcomes) : outcomes'[i] = outcomes[i]
      /\ outcomes'[Current] = result[Current]
  BY <1>1 DEF IInv, TypeOK, TransportTypeOK
<1>3. Current' = Current + 1
  BY <1>2 DEF Current
<1>4. over' \in BOOLEAN
  BY DEF Reached
<1>5. TypeOK'
  BY <1>0, <1>1, <1>2, <1>4, RunAssumption DEF IInv, TypeOK, TransportTypeOK
<1>6. QueuesInv' /\ CallInv'
  BY <1>0 DEF IInv, QueuesInv, CallInv
<1>7. OwnInv'
  BY <1>0, QuietOwn DEF IInv
<1>8. OrderInv'
  <2>1. \A q : Reached(q)' <=> Reached(q)
    BY <1>0 DEF Reached
  <2>2. \A p \in Probes : /\ p < Current' => stage'[p] = "ended"
                          /\ p > Current' => stage'[p] = "new"
    BY <1>0, <1>1, <1>3, RunAssumption DEF IInv, OrderInv
  <2>3. \A i \in DOMAIN outcomes' : outcomes'[i] = result'[i]
    <3>1. DOMAIN outcomes' = 1..Current /\ DOMAIN outcomes = 1..Len(outcomes)
      BY <1>2 DEF IInv, TypeOK
    <3>. QED BY <3>1, <1>0, <1>1, <1>2 DEF IInv, OrderInv
  <2>4. \A p \in Probes : stage'[p] # "new" => \A q \in 1..(p - 1) : ~Reached(q)'
    BY <1>0, <2>1 DEF IInv, OrderInv
  <2>5. ~over' => Current' \in Probes /\ \A q \in 1..Len(outcomes') : ~Reached(q)'
    <3>. SUFFICES ASSUME ~over' PROVE Current' \in Probes /\ \A q \in 1..Current : ~Reached(q)
      BY <1>2, <2>1
    <3>1. ~Reached(Current) /\ Current # Last
      OBVIOUS
    <3>2. Current' \in Probes
      BY <1>1, <1>3, <3>1, RunAssumption
    <3>3. \A q \in 1..Current : q = Current \/ q \in 1..Len(outcomes)
      BY <1>1
    <3>. QED BY <3>1, <3>2, <3>3 DEF IInv, OrderInv
  <2>. QED BY <2>2, <2>3, <2>4, <2>5 DEF OrderInv
<1>. QED BY <1>5, <1>6, <1>7, <1>8 DEF IInv

-----------------------------------------------------------------------------
\* Every step preserves the invariant.
LEMMA NextIInv == IInv /\ [Next]_vars => IInv'
<1>. SUFFICES ASSUME IInv, [Next]_vars PROVE IInv'
  OBVIOUS
<1>1. CASE StartProbe
  BY <1>1, StartProbeInv
<1>2. CASE RecordOutcome
  BY <1>2, RecordOutcomeInv
<1>3. CASE Arrival /\ UNCHANGED <<outcomes, over>>
  BY <1>3, ArrivalInv
<1>4. CASE ReadError /\ UNCHANGED <<outcomes, over>>
  BY <1>4, ReadErrorInv
<1>5. ASSUME NEW p \in Probes, ProbeStep(p) \/ TimeUp(p), UNCHANGED <<outcomes, over>> PROVE IInv'
  BY <1>5, CallGoesOnInv, ReceiveInv, WaitEndsInv DEF ProbeStep
<1>6. CASE UNCHANGED vars
  <2>1. TypeOK' /\ QueuesInv' /\ CallInv'
    BY <1>6 DEF vars, IInv, TypeOK, TransportTypeOK, QueuesInv, CallInv
  <2>2. OwnInv' /\ OrderInv'
    BY <1>6, QuietOwn, QuietOrder DEF vars, IInv
  <2>. QED BY <2>1, <2>2 DEF IInv
<1>. QED BY <1>1, <1>2, <1>3, <1>4, <1>5, <1>6 DEF Next

\* The invariant holds throughout every run.
THEOREM Invariance == Spec => []IInv
BY InitIInv, NextIInv, PTL DEF Spec

\* Types: a datagram is sent at most twice, and no run records more outcomes
\* than it was asked for (_send, _walk, run_ping).
THEOREM TypeCorrect == Spec => []TypeOK
<1>1. IInv => TypeOK
  BY DEF IInv
<1>. QED BY <1>1, Invariance, PTL

\* No packet about anything else ends a probe's wait (_await, _answer_in).
THEOREM WaitsEndForTheirOwnReason == Spec => []WaitEndsForItsOwnReason
<1>1. IInv => WaitEndsForItsOwnReason
  BY AboutPackets DEF IInv, OwnInv, Answers, WaitEndsForItsOwnReason
<1>. QED BY <1>1, Invariance, PTL

\* Each round trip or hop is what its own probe was answered (run_ping, _walk).
THEOREM OutcomesAreOwn == Spec => []OwnOutcomes
<1>1. ASSUME IInv PROVE OwnOutcomes
  <2>. SUFFICES ASSUME NEW i \in DOMAIN outcomes, outcomes[i] # Unanswered
                PROVE  outcomes[i].about = i
    BY DEF OwnOutcomes
  <2>1. i \in Probes
    BY <1>1, RunAssumption DEF IInv, TypeOK
  <2>2. outcomes[i] = cause[i] /\ cause[i] # Nothing
    BY <1>1, <2>1 DEF IInv, OrderInv, OwnInv
  <2>. QED BY <1>1, <2>1, <2>2, AboutPackets DEF IInv, OwnInv, Answers
<1>. QED BY <1>1, Invariance, PTL

\* A walk sends nothing behind the target (_walk).
THEOREM WalksStopAtTheTarget == Spec => []NeverPastTheTarget
<1>1. IInv => NeverPastTheTarget
  BY DEF IInv, CallInv, OrderInv, NeverPastTheTarget, Sent
<1>. QED BY <1>1, Invariance, PTL

-----------------------------------------------------------------------------
\* One step of the run is a step of the contract, or none.
LEMMA StepRefines ==
  ASSUME IInv, IInv', [Next]_vars
  PROVE  [Contract!Next]_(Contract!vars)
<1>. USE DEF Contract!Next, Contract!vars
<1>1. ASSUME UNCHANGED <<stage, result>> PROVE UNCHANGED Contract!vars
  BY <1>1
<1>2. ASSUME StartProbe PROVE \E p \in Probes : Contract!Start(p)
  <2>1. Current \in Probes
    BY <1>2 DEF StartProbe, IInv, OrderInv
  <2>. QED BY <1>2, <2>1 DEF StartProbe, Begin, Contract!Start
<1>3. ASSUME NEW p \in Probes, NEW packet, running = p, Finish(p, packet)
      PROVE  Contract!End(p)
  <2>1. stage[p] = "pending" /\ result[p] = Unanswered
    BY <1>3 DEF IInv, CallInv
  <2>2. stage' = [stage EXCEPT ![p] = "ended"]
    BY <1>3 DEF Finish
  <2>3. CASE result'[p] = Unanswered
    <3>1. result' = result
      BY <1>3, <2>1, <2>3 DEF Finish, IInv, TypeOK, TransportTypeOK
    <3>. QED BY <2>1, <2>2, <3>1 DEF Contract!End, Contract!GivenUp
  <2>4. CASE result'[p] # Unanswered
    <3>1. result' = [result EXCEPT ![p] = result'[p]]
      BY <1>3 DEF Finish, IInv, TypeOK, TransportTypeOK
    <3>2. Answers(result'[p], p) /\ result'[p].kind # "undelivered"
      BY <2>4 DEF IInv, OwnInv, Answers, Concerns
    <3>3. result'[p] \in OwnAnswers[p]
      BY <3>2 DEF OwnAnswers, Answers, Concerns, IsError
    <3>. QED BY <2>1, <2>2, <3>1, <3>3 DEF Contract!End, Contract!Answered
  <2>. QED BY <2>3, <2>4
<1>4. ASSUME NEW p \in Probes, ProbeStep(p) \/ TimeUp(p)
      PROVE  Contract!End(p) \/ UNCHANGED <<stage, result>>
  <2>1. CASE Cleared(p) \/ SendAccepted(p) \/ SendRefused(p) \/ Resend(p) \/ ReceiveRaises(p) \/ WaitGoesOn(p)
    BY <2>1 DEF Cleared, SendAccepted, SendRefused, Resend, ReceiveRaises, WaitGoesOn, outcome
  <2>2. CASE Receive(p)
    BY <1>3, <2>2 DEF Receive, outcome
  <2>3. CASE SendFailed(p) \/ ErrorEndsWait(p) \/ TimeUp(p)
    BY <1>3, <2>3 DEF SendFailed, ErrorEndsWait, TimeUp
  <2>. QED BY <1>4, <2>1, <2>2, <2>3 DEF ProbeStep
<1>5. CASE Arrival \/ ReadError \/ RecordOutcome \/ UNCHANGED vars
  BY <1>1, <1>5 DEF Arrival, DatagramArrives, ErrorArrives, SocketFails, ReadError,
     RecordOutcome, transportVars, outcome, vars
<1>. QED BY <1>1, <1>2, <1>4, <1>5 DEF Next

\* The blocking transport implements the safety part of the contract of
\* ports.py, under the callers that number their probes in order.
THEOREM ContractSafety == Spec => Contract!Init /\ [][Contract!Next]_(Contract!vars)
<1>1. Init => Contract!Init
  BY DEF Init, TransportInit, Contract!Init
<1>2. IInv /\ IInv' /\ [Next]_vars => [Contract!Next]_(Contract!vars)
  BY StepRefines
<1>. QED BY <1>1, <1>2, Invariance, PTL DEF Spec
=============================================================================
