------------------------ MODULE AsyncPosixEchoProofs ------------------------
(***************************************************************************)
(* Theorems about AsyncPosixEcho, for any number of probes, any sequence   *)
(* numbers and hop limits, either kind of socket, and any network.         *)
(*                                                                         *)
(* The inductive invariant IInv says what the packets in the two queues    *)
(* can be (QueuesInv), which coroutine has the loop and which are          *)
(* registered (LoopInv), and whose hop limit is in force (HopInv).         *)
(***************************************************************************)
EXTENDS AsyncPosixEcho, IcmpAnswersProofs

QueuesInv == inbox \in Seq(Genuine) /\ errQueue \in Seq(Genuine)

\* The running coroutine is the only one between its start and its await, and
\* exactly the probes that wait or are sending are registered.
LoopInv ==
  /\ \A p \in Probes : stage[p] = "running" <=> running = p
  /\ \A p \in Probes : p \in waiters <=> stage[p] = "waiting" \/ (running = p /\ attempt > 0)
  /\ step = "recv" => running = Reader
  /\ step = "send" => running \in Probes /\ attempt > 0
  /\ running \in Probes /\ step = "drain" /\ attempt = 0 => answer[running] = Pending
  /\ \A p \in Probes : stage[p] = "new" => answer[p] = Pending

\* The hop limit set for the running probe is still in force at its send.
HopInv ==
  /\ running \in Probes => (HopLimited(running) => hop = Ttl[running])
  /\ HopLimitIsOwn

IInv == TypeOK /\ QueuesInv /\ LoopInv /\ HopInv

-----------------------------------------------------------------------------
\* A new transport satisfies the invariant.
LEMMA InitIInv == Init => IInv
<1>. SUFFICES ASSUME Init PROVE IInv
  OBVIOUS
<1>1. KernelOK
  <2>1. sentWith \in [Probes -> Nat]
    BY DEF Init, NoTtl
  <2>2. sockErr \in BOOLEAN
    BY DEF Init
  <2>3. hop \in Nat \ {NoTtl} /\ arrivals \in Nat
    BY ProbesAssumption DEF Init
  <2>4. inbox \in Seq(Packets) /\ errQueue \in Seq(Packets)
    BY DEF Init
  <2>. QED BY <2>1, <2>2, <2>3, <2>4 DEF KernelOK
<1>2. TransportOK
  BY DEF Init, TransportOK
<1>3. TasksOK
  <2>1. stage \in [Probes -> {"new", "running", "waiting", "ended", "cancelled"}]
    BY DEF Init
  <2>2. result \in [Probes -> Packets \cup {Unanswered}] /\ sawError \in BOOLEAN
    BY DEF Init
  <2>3. running \in Probes \cup {Reader, Nobody} /\ step \in {"drain", "send", "recv"}
    BY DEF Init
  <2>4. attempt \in 0..2
    BY DEF Init
  <2>. QED BY <2>1, <2>2, <2>3, <2>4 DEF TasksOK
<1>4. QueuesInv
  BY DEF Init, QueuesInv
<1>5. LoopInv
  BY LoopAssumption DEF Init, LoopInv
<1>6. HopInv
  BY LoopAssumption DEF Init, HopInv, HopLimitIsOwn, Sent
<1>. QED BY <1>1, <1>2, <1>3, <1>4, <1>5, <1>6 DEF IInv, TypeOK

-----------------------------------------------------------------------------
\* What settling one packet can do to the futures.
SettledBy(e) ==
  /\ answer' \in [Probes -> Packets \cup {Pending}]
  /\ \A p \in Probes : answer'[p] # answer[p] =>
       /\ answer[p] = Pending /\ answer'[p] = e /\ p \in waiters
       /\ \/ e.kind = "reply" /\ e.token = p
          \/ Concerns(e, p) /\ Named(e) = {p}

\* _settle resolves at most a registered probe the error concerns, whose
\* future was not done.
LEMMA SettleEffect ==
  ASSUME TransportOK, NEW e \in Packets, Settle(e)
  PROVE  SettledBy(e)
<1>1. CASE \E p \in Named(e) : Named(e) = {p} /\ answer[p] = Pending
  <2>1. PICK p \in Named(e) : Named(e) = {p} /\ answer[p] = Pending
    BY <1>1
  <2>2. (CHOOSE q \in Named(e) : TRUE) = p
    BY <2>1
  <2>3. answer' = [answer EXCEPT ![p] = e]
    BY <1>1, <2>2 DEF Settle
  <2>4. p \in waiters /\ p \in Probes /\ Concerns(e, p)
    BY <2>1 DEF Named, TransportOK
  <2>. QED BY <2>1, <2>3, <2>4 DEF SettledBy, TransportOK
<1>2. CASE ~(\E p \in Named(e) : Named(e) = {p} /\ answer[p] = Pending)
  BY <1>2 DEF Settle, SettledBy, TransportOK
<1>. QED BY <1>1, <1>2

\* So does _settle_datagram, where a reply concerns the probe of its token.
LEMMA SettleDatagramEffect ==
  ASSUME TransportOK, NEW d \in Packets, SettleDatagram(d)
  PROVE  SettledBy(d)
<1>1. CASE d.kind = "reply" /\ d.token \in waiters /\ answer[d.token] = Pending
  <2>1. answer' = [answer EXCEPT ![d.token] = d] /\ d.token \in Probes
    BY <1>1 DEF SettleDatagram, SettleReply, TransportOK
  <2>. QED BY <1>1, <2>1 DEF SettledBy, TransportOK
<1>2. CASE d.kind = "reply" /\ ~(d.token \in waiters /\ answer[d.token] = Pending)
  BY <1>2 DEF SettleDatagram, SettleReply, SettledBy, TransportOK
<1>3. CASE d.kind # "reply"
  BY <1>3, SettleEffect DEF SettleDatagram
<1>. QED BY <1>1, <1>2, <1>3

-----------------------------------------------------------------------------
\* One lemma per action: it preserves the invariant.

\* The kernel queues a datagram.
LEMMA DatagramArrivesInv ==
  ASSUME IInv, DatagramArrives
  PROVE  IInv'
<1>. USE DEF IInv, TypeOK, DatagramArrives, kernel, transport, tasks
<1>0. PICK x \in Receivable(Sent) : inbox' = Append(inbox, x)
  OBVIOUS
<1>a. x \in Genuine /\ x \in Packets
  BY <1>0, Delivered, GenuineArePackets DEF Sent
<1>1. KernelOK'
  <2>1. inbox' \in Seq(Packets)
    BY <1>0, <1>a, QueueSteps DEF KernelOK
  <2>2. sockErr' \in BOOLEAN
    BY DEF KernelOK
  <2>3. arrivals' \in Nat
    BY DEF KernelOK
  <2>. QED BY <2>1, <2>2, <2>3 DEF KernelOK
<1>2. TransportOK'
  BY DEF TransportOK
<1>3. TasksOK'
  BY DEF TasksOK
<1>4. QueuesInv'
  BY <1>0, <1>a, QueueSteps DEF QueuesInv
<1>5. LoopInv'
  BY LoopAssumption DEF LoopInv, TasksOK, TransportOK
<1>6. HopInv'
  BY LoopAssumption DEF HopInv, HopLimitIsOwn, Sent, LoopInv, KernelOK, TasksOK
<1>. QED BY <1>1, <1>2, <1>3, <1>4, <1>5, <1>6

\* The kernel queues an ICMP error.
LEMMA ErrorArrivesInv ==
  ASSUME IInv, ErrorArrives
  PROVE  IInv'
<1>. USE DEF IInv, TypeOK, ErrorArrives, kernel, transport, tasks
<1>0. PICK x \in QueueableErrors(Sent) : errQueue' = Append(errQueue, x)
  OBVIOUS
<1>a. x \in Genuine /\ x \in Packets
  BY <1>0, Delivered, GenuineArePackets DEF Sent
<1>1. KernelOK'
  <2>1. errQueue' \in Seq(Packets)
    BY <1>0, <1>a, QueueSteps DEF KernelOK
  <2>2. sockErr' \in BOOLEAN
    BY DEF KernelOK
  <2>3. arrivals' \in Nat
    BY DEF KernelOK
  <2>. QED BY <2>1, <2>2, <2>3 DEF KernelOK
<1>2. TransportOK'
  BY DEF TransportOK
<1>3. TasksOK'
  BY DEF TasksOK
<1>4. QueuesInv'
  BY <1>0, <1>a, QueueSteps DEF QueuesInv
<1>5. LoopInv'
  BY LoopAssumption DEF LoopInv, TasksOK, TransportOK
<1>6. HopInv'
  BY LoopAssumption DEF HopInv, HopLimitIsOwn, Sent, LoopInv, KernelOK, TasksOK
<1>. QED BY <1>1, <1>2, <1>3, <1>4, <1>5, <1>6

\* probe() starts: the hop limit in force is its own.
LEMMA BeginInv ==
  ASSUME IInv, NEW p \in Probes, Begin(p)
  PROVE  IInv'
<1>. USE DEF IInv, TypeOK, Begin, kernel, transport, tasks
<1>1. KernelOK'
  <2>1. hop' \in Nat \ {NoTtl}
    BY ProbesAssumption DEF KernelOK, HopLimited
  <2>. QED BY <2>1 DEF KernelOK
<1>2. TransportOK'
  BY DEF TransportOK
<1>3. TasksOK'
  <2>1. sawError' \in BOOLEAN /\ running' \in Probes \cup {Reader, Nobody}
    BY DEF TasksOK
  <2>2. stage' \in [Probes -> {"new", "running", "waiting", "ended", "cancelled"}]
    BY DEF TasksOK
  <2>3. result' \in [Probes -> Packets \cup {Unanswered}]
    BY DEF TasksOK
  <2>4. step' \in {"drain", "send", "recv"} /\ attempt' \in 0..2
    BY DEF TasksOK
  <2>. QED BY <2>1, <2>2, <2>3, <2>4 DEF TasksOK
<1>4. QueuesInv'
  BY DEF QueuesInv
<1>5. LoopInv'
  BY LoopAssumption DEF LoopInv, TasksOK, TransportOK
<1>6. HopInv'
  BY LoopAssumption DEF HopInv, HopLimitIsOwn, Sent, LoopInv, KernelOK, TasksOK
<1>. QED BY <1>1, <1>2, <1>3, <1>4, <1>5, <1>6

\* One entry is read off the error queue and settled.
LEMMA ReadErrorInv ==
  ASSUME IInv, ReadError
  PROVE  IInv'
<1>. USE DEF IInv, TypeOK, ReadError, kernel, transport, tasks
<1>1. KernelOK'
  BY DEF KernelOK
<1>a. Head(errQueue) \in Packets
  BY QueueSteps DEF KernelOK
<1>b. SettledBy(Head(errQueue))
  BY <1>a, SettleEffect
<1>2. TransportOK'
  BY <1>b DEF TransportOK, SettledBy
<1>3. TasksOK'
  BY DEF TasksOK
<1>4. QueuesInv'
  BY DEF QueuesInv
<1>5. LoopInv'
  BY LoopAssumption, <1>b DEF LoopInv, TasksOK, TransportOK, SettledBy
<1>6. HopInv'
  BY LoopAssumption DEF HopInv, HopLimitIsOwn, Sent, LoopInv, KernelOK, TasksOK
<1>. QED BY <1>1, <1>2, <1>3, <1>4, <1>5, <1>6

\* The probe is registered when its drain finds the error queue empty.
LEMMA RegisterInv ==
  ASSUME IInv, NEW p \in Probes, Register(p)
  PROVE  IInv'
<1>. USE DEF IInv, TypeOK, Register, kernel, transport, tasks
<1>1. KernelOK'
  BY DEF KernelOK
<1>2. TransportOK'
  BY DEF TransportOK
<1>3. TasksOK'
  BY DEF TasksOK
<1>4. QueuesInv'
  BY DEF QueuesInv
<1>5. LoopInv'
  BY LoopAssumption DEF LoopInv, TasksOK, TransportOK
<1>6. HopInv'
  BY LoopAssumption DEF HopInv, HopLimitIsOwn, Sent, LoopInv, KernelOK, TasksOK
<1>. QED BY <1>1, <1>2, <1>3, <1>4, <1>5, <1>6

\* The datagram leaves with the hop limit set when the probe started.
LEMMA SendAcceptedInv ==
  ASSUME IInv, NEW p \in Probes, SendAccepted(p)
  PROVE  IInv'
<1>. USE DEF IInv, TypeOK, SendAccepted, kernel, transport, tasks
<1>1. KernelOK'
  BY DEF KernelOK
<1>2. TransportOK'
  BY DEF TransportOK
<1>3. TasksOK'
  <2>1. sawError' \in BOOLEAN /\ running' \in Probes \cup {Reader, Nobody}
    BY DEF TasksOK
  <2>2. stage' \in [Probes -> {"new", "running", "waiting", "ended", "cancelled"}]
    BY DEF TasksOK
  <2>3. result' \in [Probes -> Packets \cup {Unanswered}]
    BY DEF TasksOK
  <2>4. step' \in {"drain", "send", "recv"} /\ attempt' \in 0..2
    BY DEF TasksOK
  <2>. QED BY <2>1, <2>2, <2>3, <2>4 DEF TasksOK
<1>4. QueuesInv'
  BY DEF QueuesInv
<1>5. LoopInv'
  BY LoopAssumption DEF LoopInv, TasksOK, TransportOK
<1>6. HopInv'
  BY LoopAssumption DEF HopInv, HopLimitIsOwn, Sent, LoopInv, KernelOK, TasksOK
<1>. QED BY <1>1, <1>2, <1>3, <1>4, <1>5, <1>6

\* The send fails with the errno of a queued error.
LEMMA SendRefusedByErrorInv ==
  ASSUME IInv, NEW p \in Probes, SendRefusedByError(p)
  PROVE  IInv'
<1>. USE DEF IInv, TypeOK, SendRefusedByError, kernel, transport, tasks
<1>1. KernelOK'
  BY DEF KernelOK
<1>2. TransportOK'
  BY DEF TransportOK
<1>3. TasksOK'
  BY DEF TasksOK
<1>4. QueuesInv'
  BY DEF QueuesInv
<1>5. LoopInv'
  BY LoopAssumption DEF LoopInv, TasksOK, TransportOK
<1>6. HopInv'
  BY LoopAssumption DEF HopInv, HopLimitIsOwn, Sent, LoopInv, KernelOK, TasksOK
<1>. QED BY <1>1, <1>2, <1>3, <1>4, <1>5, <1>6

\* The local stack refuses the send.
LEMMA SendRefusedLocallyInv ==
  ASSUME IInv, NEW p \in Probes, SendRefusedLocally(p)
  PROVE  IInv'
<1>. USE DEF IInv, TypeOK, SendRefusedLocally, kernel, transport, tasks
<1>0. \/ UNCHANGED <<errQueue, sockErr>>
      \/ sockErr' = TRUE /\ \E x \in Genuine : errQueue' = Append(errQueue, x)
  <2>1. About(p) \cap {e \in Packets : IsError(e)} \subseteq Genuine
    BY ProbesAssumption DEF About, Genuine, IsError
  <2>2. \A e \in About(p) : e \in Packets
    BY ProbesAssumption DEF About, Packets, Kinds
  <2>. QED BY <2>1, <2>2 DEF IsError
<1>1. KernelOK'
  <2>1. errQueue' \in Seq(Packets)
    BY <1>0, QueueSteps, GenuineArePackets DEF KernelOK
  <2>2. sockErr' \in BOOLEAN
    BY <1>0 DEF KernelOK
  <2>. QED BY <2>1, <2>2 DEF KernelOK
<1>2. TransportOK'
  BY DEF TransportOK
<1>3. TasksOK'
  BY DEF TasksOK
<1>4. QueuesInv'
  BY <1>0, QueueSteps DEF QueuesInv
<1>5. LoopInv'
  BY LoopAssumption DEF LoopInv, TasksOK, TransportOK
<1>6. HopInv'
  BY LoopAssumption DEF HopInv, HopLimitIsOwn, Sent, LoopInv, KernelOK, TasksOK
<1>. QED BY <1>1, <1>2, <1>3, <1>4, <1>5, <1>6

\* The send is repeated, once.
LEMMA RetryInv ==
  ASSUME IInv, NEW p \in Probes, Retry(p)
  PROVE  IInv'
<1>. USE DEF IInv, TypeOK, Retry, kernel, transport, tasks
<1>1. KernelOK'
  BY DEF KernelOK
<1>2. TransportOK'
  BY DEF TransportOK
<1>3. TasksOK'
  BY DEF TasksOK
<1>4. QueuesInv'
  BY DEF QueuesInv
<1>5. LoopInv'
  BY LoopAssumption DEF LoopInv, TasksOK, TransportOK
<1>6. HopInv'
  BY LoopAssumption DEF HopInv, HopLimitIsOwn, Sent, LoopInv, KernelOK, TasksOK
<1>. QED BY <1>1, <1>2, <1>3, <1>4, <1>5, <1>6

\* The probe gives up before it waits.
LEMMA SendFailedInv ==
  ASSUME IInv, NEW p \in Probes, SendFailed(p)
  PROVE  IInv'
<1>. USE DEF IInv, TypeOK, SendFailed, Finish, kernel, transport, tasks
<1>1. KernelOK'
  BY DEF KernelOK
<1>2. TransportOK'
  BY DEF TransportOK
<1>3. TasksOK'
  <2>1. sawError' \in BOOLEAN /\ running' \in Probes \cup {Reader, Nobody}
    BY DEF TasksOK
  <2>2. stage' \in [Probes -> {"new", "running", "waiting", "ended", "cancelled"}]
    BY DEF TasksOK
  <2>3. result' \in [Probes -> Packets \cup {Unanswered}]
    BY DEF TasksOK
  <2>4. step' \in {"drain", "send", "recv"} /\ attempt' \in 0..2
    BY DEF TasksOK
  <2>. QED BY <2>1, <2>2, <2>3, <2>4 DEF TasksOK
<1>4. QueuesInv'
  BY DEF QueuesInv
<1>5. LoopInv'
  BY LoopAssumption DEF LoopInv, TasksOK, TransportOK
<1>6. HopInv'
  BY LoopAssumption DEF HopInv, HopLimitIsOwn, Sent, LoopInv, KernelOK, TasksOK
<1>. QED BY <1>1, <1>2, <1>3, <1>4, <1>5, <1>6

\* A resolved future ends its probe's wait.
LEMMA WakeInv ==
  ASSUME IInv, NEW p \in Probes, Wake(p)
  PROVE  IInv'
<1>. USE DEF IInv, TypeOK, Wake, Finish, kernel, transport, tasks
<1>1. KernelOK'
  BY DEF KernelOK
<1>2. TransportOK'
  BY DEF TransportOK
<1>3. TasksOK'
  <2>1. sawError' \in BOOLEAN /\ running' \in Probes \cup {Reader, Nobody}
    BY DEF TasksOK
  <2>2. stage' \in [Probes -> {"new", "running", "waiting", "ended", "cancelled"}]
    BY DEF TasksOK
  <2>3. result' \in [Probes -> Packets \cup {Unanswered}]
    BY DEF TasksOK, TransportOK, ResultOf
  <2>4. step' \in {"drain", "send", "recv"} /\ attempt' \in 0..2
    BY DEF TasksOK
  <2>. QED BY <2>1, <2>2, <2>3, <2>4 DEF TasksOK
<1>4. QueuesInv'
  BY DEF QueuesInv
<1>5. LoopInv'
  BY LoopAssumption DEF LoopInv, TasksOK, TransportOK
<1>6. HopInv'
  BY LoopAssumption DEF HopInv, HopLimitIsOwn, Sent, LoopInv, KernelOK, TasksOK
<1>. QED BY <1>1, <1>2, <1>3, <1>4, <1>5, <1>6

\* The timer ends a wait.
LEMMA TimeoutInv ==
  ASSUME IInv, NEW p \in Probes, Timeout(p)
  PROVE  IInv'
<1>. USE DEF IInv, TypeOK, Timeout, Finish, kernel, transport, tasks
<1>1. KernelOK'
  BY DEF KernelOK
<1>2. TransportOK'
  BY DEF TransportOK
<1>3. TasksOK'
  <2>1. sawError' \in BOOLEAN /\ running' \in Probes \cup {Reader, Nobody}
    BY DEF TasksOK
  <2>2. stage' \in [Probes -> {"new", "running", "waiting", "ended", "cancelled"}]
    BY DEF TasksOK
  <2>3. result' \in [Probes -> Packets \cup {Unanswered}]
    BY DEF TasksOK
  <2>4. step' \in {"drain", "send", "recv"} /\ attempt' \in 0..2
    BY DEF TasksOK
  <2>. QED BY <2>1, <2>2, <2>3, <2>4 DEF TasksOK
<1>4. QueuesInv'
  BY DEF QueuesInv
<1>5. LoopInv'
  BY LoopAssumption DEF LoopInv, TasksOK, TransportOK
<1>6. HopInv'
  BY LoopAssumption DEF HopInv, HopLimitIsOwn, Sent, LoopInv, KernelOK, TasksOK
<1>. QED BY <1>1, <1>2, <1>3, <1>4, <1>5, <1>6

\* The caller's cancellation ends a wait.
LEMMA CancelInv ==
  ASSUME IInv, NEW p \in Probes, Cancel(p)
  PROVE  IInv'
<1>. USE DEF IInv, TypeOK, Cancel, Finish, kernel, transport, tasks
<1>1. KernelOK'
  BY DEF KernelOK
<1>2. TransportOK'
  BY DEF TransportOK
<1>3. TasksOK'
  <2>1. sawError' \in BOOLEAN /\ running' \in Probes \cup {Reader, Nobody}
    BY DEF TasksOK
  <2>2. stage' \in [Probes -> {"new", "running", "waiting", "ended", "cancelled"}]
    BY DEF TasksOK
  <2>3. result' \in [Probes -> Packets \cup {Unanswered}]
    BY DEF TasksOK
  <2>4. step' \in {"drain", "send", "recv"} /\ attempt' \in 0..2
    BY DEF TasksOK
  <2>. QED BY <2>1, <2>2, <2>3, <2>4 DEF TasksOK
<1>4. QueuesInv'
  BY DEF QueuesInv
<1>5. LoopInv'
  BY LoopAssumption DEF LoopInv, TasksOK, TransportOK
<1>6. HopInv'
  BY LoopAssumption DEF HopInv, HopLimitIsOwn, Sent, LoopInv, KernelOK, TasksOK
<1>. QED BY <1>1, <1>2, <1>3, <1>4, <1>5, <1>6

\* The loop calls the reader.
LEMMA ReaderCalledInv ==
  ASSUME IInv, ReaderCalled
  PROVE  IInv'
<1>. USE DEF IInv, TypeOK, ReaderCalled, kernel, transport, tasks
<1>1. KernelOK'
  BY DEF KernelOK
<1>2. TransportOK'
  BY DEF TransportOK
<1>3. TasksOK'
  BY DEF TasksOK
<1>4. QueuesInv'
  BY DEF QueuesInv
<1>5. LoopInv'
  BY LoopAssumption DEF LoopInv, TasksOK, TransportOK
<1>6. HopInv'
  BY LoopAssumption DEF HopInv, HopLimitIsOwn, Sent, LoopInv, KernelOK, TasksOK
<1>. QED BY <1>1, <1>2, <1>3, <1>4, <1>5, <1>6

\* The reader has drained the error queue.
LEMMA ReaderDrainedInv ==
  ASSUME IInv, ReaderDrained
  PROVE  IInv'
<1>. USE DEF IInv, TypeOK, ReaderDrained, kernel, transport, tasks
<1>1. KernelOK'
  BY DEF KernelOK
<1>2. TransportOK'
  BY DEF TransportOK
<1>3. TasksOK'
  BY DEF TasksOK
<1>4. QueuesInv'
  BY DEF QueuesInv
<1>5. LoopInv'
  BY LoopAssumption DEF LoopInv, TasksOK, TransportOK
<1>6. HopInv'
  BY LoopAssumption DEF HopInv, HopLimitIsOwn, Sent, LoopInv, KernelOK, TasksOK
<1>. QED BY <1>1, <1>2, <1>3, <1>4, <1>5, <1>6

\* The reader receives and settles one datagram.
LEMMA ReceiveInv ==
  ASSUME IInv, Receive
  PROVE  IInv'
<1>. USE DEF IInv, TypeOK, Receive, kernel, transport, tasks
<1>1. KernelOK'
  BY DEF KernelOK
<1>a. Head(inbox) \in Packets
  BY QueueSteps DEF KernelOK
<1>b. SettledBy(Head(inbox))
  BY <1>a, SettleDatagramEffect
<1>2. TransportOK'
  BY <1>b DEF TransportOK, SettledBy
<1>3. TasksOK'
  BY DEF TasksOK
<1>4. QueuesInv'
  BY DEF QueuesInv
<1>5. LoopInv'
  BY LoopAssumption, <1>b DEF LoopInv, TasksOK, TransportOK, SettledBy
<1>6. HopInv'
  BY LoopAssumption DEF HopInv, HopLimitIsOwn, Sent, LoopInv, KernelOK, TasksOK
<1>. QED BY <1>1, <1>2, <1>3, <1>4, <1>5, <1>6

\* The reader gives the loop back.
LEMMA ReaderReturnsInv ==
  ASSUME IInv, ReaderReturns
  PROVE  IInv'
<1>. USE DEF IInv, TypeOK, ReaderReturns, kernel, transport, tasks
<1>1. KernelOK'
  BY DEF KernelOK
<1>2. TransportOK'
  BY DEF TransportOK
<1>3. TasksOK'
  BY DEF TasksOK
<1>4. QueuesInv'
  BY DEF QueuesInv
<1>5. LoopInv'
  BY LoopAssumption DEF LoopInv, TasksOK, TransportOK
<1>6. HopInv'
  BY LoopAssumption DEF HopInv, HopLimitIsOwn, Sent, LoopInv, KernelOK, TasksOK
<1>. QED BY <1>1, <1>2, <1>3, <1>4, <1>5, <1>6

\* aclose.
LEMMA CloseInv ==
  ASSUME IInv, Close
  PROVE  IInv'
<1>. USE DEF IInv, TypeOK, Close, kernel, transport, tasks
<1>1. KernelOK'
  BY DEF KernelOK
<1>2. TransportOK'
  BY DEF TransportOK
<1>3. TasksOK'
  BY DEF TasksOK
<1>4. QueuesInv'
  BY DEF QueuesInv
<1>5. LoopInv'
  BY LoopAssumption DEF LoopInv, TasksOK, TransportOK
<1>6. HopInv'
  BY LoopAssumption DEF HopInv, HopLimitIsOwn, Sent, LoopInv, KernelOK, TasksOK
<1>. QED BY <1>1, <1>2, <1>3, <1>4, <1>5, <1>6

-----------------------------------------------------------------------------
\* Every step preserves the invariant.
LEMMA NextIInv == IInv /\ [Next]_vars => IInv'
<1>. SUFFICES ASSUME IInv, [Next]_vars PROVE IInv'
  OBVIOUS
<1>1. CASE UNCHANGED vars
  BY <1>1 DEF vars, IInv, TypeOK, KernelOK, TransportOK, TasksOK, QueuesInv,
              LoopInv, HopInv, HopLimitIsOwn, Sent
<1>2. CASE Arrival
  BY <1>2, DatagramArrivesInv, ErrorArrivesInv DEF Arrival
<1>3. ASSUME NEW p \in Probes, Begin(p) \/ Wake(p) \/ Timeout(p) \/ Cancel(p)
      PROVE  IInv'
  BY <1>3, BeginInv, WakeInv, TimeoutInv, CancelInv
<1>4. ASSUME NEW p \in Probes, SendStep(p) PROVE IInv'
  BY <1>4, RegisterInv, SendAcceptedInv, SendRefusedByErrorInv,
     SendRefusedLocallyInv, RetryInv, SendFailedInv DEF SendStep
<1>5. CASE ReadError \/ ReaderCalled \/ ReaderStep \/ Close
  BY <1>5, ReadErrorInv, ReaderCalledInv, ReaderDrainedInv, ReceiveInv,
     ReaderReturnsInv, CloseInv DEF ReaderStep
<1>. QED BY <1>1, <1>2, <1>3, <1>4, <1>5 DEF Next

\* The inductive invariant holds throughout: the basis of the theorems below.
THEOREM Invariance == Spec => []IInv
<1>1. Init => IInv
  BY InitIInv
<1>2. IInv /\ [Next]_vars => IInv'
  BY NextIInv
<1>. QED BY <1>1, <1>2, PTL DEF Spec

\* Every variable keeps its type; no datagram is sent a third time.
THEOREM TypeCorrect == Spec => []TypeOK
<1>1. IInv => TypeOK
  BY DEF IInv
<1>. QED BY <1>1, Invariance, PTL

\* Although all probes share one socket option, each leaves with its own limit.
THEOREM HopLimitsAreOwn == Spec => []HopLimitIsOwn
<1>1. IInv => HopLimitIsOwn
  BY DEF IInv, HopInv
<1>. QED BY <1>1, Invariance, PTL

-----------------------------------------------------------------------------
\* Only three actions touch a future, each by settling one genuine packet.
LEMMA FuturesChange ==
  ASSUME IInv, [Next]_vars, answer' # answer
  PROVE  \E e \in Genuine : SettledBy(e) /\ UNCHANGED <<waiters, stage>>
<1>1. CASE ReadError
  <2>1. Head(errQueue) \in Genuine
    BY <1>1, QueueSteps DEF ReadError, IInv, QueuesInv
  <2>2. SettledBy(Head(errQueue))
    BY <1>1, <2>1, SettleEffect, GenuineArePackets DEF ReadError, IInv, TypeOK
  <2>. QED BY <1>1, <2>1, <2>2 DEF ReadError
<1>2. CASE Receive
  <2>1. Head(inbox) \in Genuine
    BY <1>2, QueueSteps DEF Receive, IInv, QueuesInv
  <2>2. SettledBy(Head(inbox))
    BY <1>2, <2>1, SettleDatagramEffect, GenuineArePackets DEF Receive, IInv, TypeOK
  <2>. QED BY <1>2, <2>1, <2>2 DEF Receive, tasks
<1>3. CASE UNCHANGED answer
  BY <1>3
<1>4. ReadError \/ Receive \/ UNCHANGED answer
  BY DEF Next, vars, transport, Arrival, DatagramArrives, ErrorArrives, Begin,
         SendStep, Register, SendAccepted, SendRefusedByError,
         SendRefusedLocally, Retry, SendFailed, Wake, Timeout, Cancel,
         ReaderCalled, ReaderStep, ReaderDrained, ReaderReturns, Close
<1>. QED BY <1>1, <1>2, <1>3, <1>4

\* A genuine packet only settles a probe it is not about when it names that
\* probe by sequence alone and the probe it is about is not waiting.
LEMMA GenuineSettles ==
  ASSUME TransportOK, NEW e \in Genuine, SettledBy(e),
         NEW p \in Probes, answer'[p] # answer[p]
  PROVE  \/ e.about = p
         \/ /\ e.about \in Probes /\ e.token = NoToken
            /\ Sequence[e.about] = Sequence[p]
            /\ e.about \notin waiters \/ HopLimited(e.about) # HopLimited(p)
<1>. SUFFICES ASSUME e.about # p PROVE
       /\ e.about \in Probes /\ e.token = NoToken
       /\ Sequence[e.about] = Sequence[p]
       /\ e.about \notin waiters \/ HopLimited(e.about) # HopLimited(p)
  OBVIOUS
<1>0. e \in Packets /\ (e.about \in Probes \/ e.about = Stranger)
  BY DEF Genuine, Packets
<1>1. Concerns(e, p) /\ Named(e) = {p}
  BY <1>0, ProbesAssumption DEF SettledBy, Genuine
<1>2. e.token = NoToken
  BY <1>0, <1>1, ProbesAssumption DEF Concerns, Genuine
<1>3. e.about \in Probes
  BY <1>0, <1>1, <1>2 DEF Concerns, Genuine
<1>4. Sequence[e.about] = Sequence[p]
  BY <1>1, <1>3 DEF Concerns, Genuine
<1>5. ASSUME e.about \in waiters, HopLimited(e.about) = HopLimited(p)
      PROVE  FALSE
  <2>1. Concerns(e, e.about)
    BY <1>1, <1>2, <1>3, <1>4, <1>5 DEF Concerns, Genuine
  <2>. QED BY <1>1, <1>5, <2>1 DEF Named
<1>. QED BY <1>2, <1>3, <1>4, <1>5

\* No probe is given what was sent to another that still waits for it.
THEOREM NoProbeIsRobbed == Spec => NoTheft
<1>1. IInv /\ [Next]_vars =>
        [\A p \in Probes :
           answer[p] = Pending /\ answer'[p] # Pending =>
             LET e == answer'[p] IN
             \/ e.about = p
             \/ /\ e.about \in Probes /\ e.token = NoToken
                /\ Sequence[e.about] = Sequence[p]
                /\ e.about \notin waiters \/ HopLimited(e.about) # HopLimited(p)]_vars
  <2>. SUFFICES ASSUME IInv, [Next]_vars, NEW p \in Probes,
                       answer[p] = Pending, answer'[p] # Pending
                PROVE  \/ answer'[p].about = p
                       \/ /\ answer'[p].about \in Probes /\ answer'[p].token = NoToken
                          /\ Sequence[answer'[p].about] = Sequence[p]
                          /\ \/ answer'[p].about \notin waiters
                             \/ HopLimited(answer'[p].about) # HopLimited(p)
    OBVIOUS
  <2>1. PICK e \in Genuine : SettledBy(e)
    BY FuturesChange
  <2>2. answer'[p] = e
    BY <2>1 DEF SettledBy
  <2>. QED BY <2>1, <2>2, GenuineSettles DEF IInv, TypeOK
<1>. QED BY <1>1, Invariance, PTL DEF Spec, NoTheft

\* A future is set once, and only while its probe is registered.
THEOREM FirstAnswersStand == Spec => FirstAnswerStands
<1>1. IInv /\ [Next]_vars =>
        [\A p \in Probes :
           answer[p] # Pending \/ stage[p] \in {"new", "ended", "cancelled"}
             => answer'[p] = answer[p]]_vars
  <2>. SUFFICES ASSUME IInv, [Next]_vars, NEW p \in Probes, answer'[p] # answer[p]
                PROVE  answer[p] = Pending /\ stage[p] \notin {"new", "ended", "cancelled"}
    OBVIOUS
  <2>1. PICK e \in Genuine : SettledBy(e)
    BY FuturesChange
  <2>2. answer[p] = Pending /\ p \in waiters
    BY <2>1 DEF SettledBy
  <2>3. stage[p] \in {"waiting", "running"}
    BY <2>2 DEF IInv, LoopInv
  <2>. QED BY <2>2, <2>3
<1>. QED BY <1>1, Invariance, PTL DEF Spec, FirstAnswerStands

-----------------------------------------------------------------------------
(***************************************************************************)
(* The contract. With distinct sequence numbers every future holds an      *)
(* answer to its own probe, and a result is only written when its probe    *)
(* ends.                                                                   *)
(***************************************************************************)
AnswersInv ==
  /\ \A p \in Probes : answer[p] # Pending =>
       answer[p] \in About(p) /\ (answer[p].kind = "expired" => HopLimited(p))
  /\ \A p \in Probes : stage[p] \in {"new", "running", "waiting"} => result[p] = Unanswered

\* With distinct sequence numbers, a future only ever holds the probe's own answer.
LEMMA NextAnswersInv ==
  ASSUME DistinctSequences, IInv, AnswersInv, [Next]_vars
  PROVE  AnswersInv'
<1>1. ASSUME NEW p \in Probes, answer'[p] # Pending
      PROVE  answer'[p] \in About(p) /\ (answer'[p].kind = "expired" => HopLimited(p))
  <2>1. CASE answer'[p] = answer[p]
    BY <1>1, <2>1 DEF AnswersInv
  <2>2. CASE answer'[p] # answer[p]
    <3>1. PICK e \in Genuine : SettledBy(e)
      BY <2>2, FuturesChange
    <3>2. answer'[p] = e /\ e.about = p
      BY <2>2, <3>1, GenuineSettles DEF SettledBy, DistinctSequences, IInv, TypeOK
    <3>3. e.kind = "expired" => HopLimited(p)
      BY <2>2, <3>1 DEF SettledBy, Concerns
    <3>. QED BY <3>2, <3>3, GenuineAbout
  <2>. QED BY <2>1, <2>2
<1>2. ASSUME NEW p \in Probes, stage'[p] \in {"new", "running", "waiting"}
      PROVE  result'[p] = Unanswered
  <2>1. SUFFICES result'[p] = result[p] /\ stage[p] \in {"new", "running", "waiting"}
    BY <2>1 DEF AnswersInv
  <2>2. CASE UNCHANGED <<stage, result>>
    BY <1>2, <2>2
  <2>3. ASSUME NEW q \in Probes, NEW outcome, NEW how \in {"ended", "cancelled"},
               Finish(q, outcome, how)
        PROVE  result'[p] = result[p] /\ stage[p] \in {"new", "running", "waiting"}
    BY <1>2, <2>3 DEF Finish, IInv, TypeOK, TasksOK
  <2>4. ASSUME NEW q \in Probes, Begin(q)
        PROVE  result'[p] = result[p] /\ stage[p] \in {"new", "running", "waiting"}
    BY <1>2, <2>4 DEF Begin, IInv, TypeOK, TasksOK
  <2>5. ASSUME NEW q \in Probes, SendAccepted(q)
        PROVE  result'[p] = result[p] /\ stage[p] \in {"new", "running", "waiting"}
    <3>1. stage[q] = "running" /\ stage' = [stage EXCEPT ![q] = "waiting"] /\ result' = result
      BY <2>5 DEF SendAccepted, IInv, LoopInv
    <3>. QED BY <1>2, <3>1 DEF IInv, TypeOK, TasksOK
  <2>6. CASE Arrival \/ ReadError \/ ReaderCalled \/ ReaderStep \/ Close \/ UNCHANGED vars
    BY <2>2, <2>6 DEF Arrival, DatagramArrives, ErrorArrives, ReadError, ReaderCalled,
       ReaderStep, ReaderDrained, Receive, ReaderReturns, Close, vars, tasks
  <2>7. ASSUME NEW q \in Probes, SendStep(q)
        PROVE  SendAccepted(q) \/ SendFailed(q) \/ UNCHANGED <<stage, result>>
    BY <2>7 DEF SendStep, Register, SendRefusedByError, SendRefusedLocally, Retry
  <2>8. ASSUME NEW q \in Probes, SendFailed(q) \/ Wake(q) \/ Timeout(q) \/ Cancel(q)
        PROVE  result'[p] = result[p] /\ stage[p] \in {"new", "running", "waiting"}
    BY <2>3, <2>8 DEF SendFailed, Wake, Timeout, Cancel
  <2>. QED BY <2>2, <2>4, <2>5, <2>6, <2>7, <2>8 DEF Next
<1>. QED BY <1>1, <1>2 DEF AnswersInv

\* One step of the transport is a step of the contract, or none.
LEMMA StepRefines ==
  ASSUME DistinctSequences, IInv, AnswersInv, [Next]_vars
  PROVE  [Contract!Next]_(Contract!vars)
<1>. USE DEF Contract!Next, Contract!vars, Phase
<1>1. ASSUME UNCHANGED <<stage, result>> PROVE UNCHANGED Contract!vars
  BY <1>1
<1>2. ASSUME NEW p \in Probes, Begin(p) PROVE Contract!Start(p)
  BY <1>2 DEF Begin, Contract!Start, IInv, TypeOK, TasksOK
<1>3. ASSUME NEW p \in Probes, SendAccepted(p) PROVE UNCHANGED Contract!vars
  <2>1. stage[p] = "running" /\ stage' = [stage EXCEPT ![p] = "waiting"] /\ result' = result
    BY <1>3 DEF SendAccepted, IInv, LoopInv
  <2>2. Phase' = Phase
    BY <2>1 DEF IInv, TypeOK, TasksOK
  <2>. QED BY <2>1, <2>2
<1>4. ASSUME NEW p \in Probes, NEW how \in {"ended", "cancelled"},
             stage[p] \in {"running", "waiting"}, Finish(p, Unanswered, how)
      PROVE  Contract!GivenUp(p)
  <2>1. result' = result
    BY <1>4 DEF Finish, AnswersInv, IInv, TypeOK, TasksOK
  <2>2. Phase' = [Phase EXCEPT ![p] = "ended"]
    BY <1>4 DEF Finish, IInv, TypeOK, TasksOK
  <2>. QED BY <1>4, <2>1, <2>2 DEF Contract!GivenUp
<1>5. ASSUME NEW p \in Probes, SendFailed(p) \/ Timeout(p) \/ Cancel(p)
      PROVE  Contract!GivenUp(p)
  BY <1>4, <1>5 DEF SendFailed, Timeout, Cancel, IInv, LoopInv
<1>6. ASSUME NEW p \in Probes, Wake(p) PROVE Contract!End(p)
  <2>1. CASE answer[p].kind = "undelivered"
    BY <1>4, <1>6, <2>1 DEF Wake, ResultOf, Contract!End
  <2>2. CASE answer[p].kind # "undelivered"
    <3>1. answer[p] \in OwnAnswers[p]
      BY <1>6, <2>2 DEF Wake, AnswersInv, OwnAnswers, About
    <3>2. result' = [result EXCEPT ![p] = answer[p]]
      BY <1>6, <2>2 DEF Wake, ResultOf, Finish
    <3>3. Phase[p] = "pending" /\ Phase' = [Phase EXCEPT ![p] = "ended"]
      BY <1>6 DEF Wake, Finish, IInv, TypeOK, TasksOK
    <3>. QED BY <3>1, <3>2, <3>3 DEF Contract!End, Contract!Answered
  <2>. QED BY <2>1, <2>2
<1>7. ASSUME NEW p \in Probes, SendStep(p)
      PROVE  SendAccepted(p) \/ SendFailed(p) \/ UNCHANGED <<stage, result>>
  BY <1>7 DEF SendStep, Register, SendRefusedByError, SendRefusedLocally, Retry
<1>8. CASE Arrival \/ ReadError \/ ReaderCalled \/ ReaderStep \/ Close \/ UNCHANGED vars
  BY <1>1, <1>8 DEF Arrival, DatagramArrives, ErrorArrives, ReadError, ReaderCalled,
     ReaderStep, ReaderDrained, Receive, ReaderReturns, Close, vars, tasks
<1>9. ASSUME NEW p \in Probes, Begin(p) \/ SendStep(p) \/ Wake(p) \/ Timeout(p) \/ Cancel(p)
      PROVE  Contract!Start(p) \/ Contract!End(p) \/ UNCHANGED Contract!vars
  BY <1>1, <1>2, <1>3, <1>5, <1>6, <1>7, <1>9 DEF Contract!End
<1>. QED BY <1>8, <1>9 DEF Next

\* The transport implements the safety part of the contract of ports.py, for
\* callers that number the probes of one transport differently.
THEOREM ContractSafety ==
  ASSUME DistinctSequences
  PROVE  Spec => Contract!Init /\ [][Contract!Next]_(Contract!vars)
<1>1. Init => AnswersInv /\ Contract!Init
  BY DEF Init, AnswersInv, Contract!Init, Phase
<1>2. IInv /\ AnswersInv /\ [Next]_vars => AnswersInv'
  BY NextAnswersInv
<1>3. IInv /\ AnswersInv /\ [Next]_vars => [Contract!Next]_(Contract!vars)
  BY StepRefines
<1>. QED BY <1>1, <1>2, <1>3, Invariance, PTL DEF Spec

=============================================================================
