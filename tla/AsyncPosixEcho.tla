--------------------------- MODULE AsyncPosixEcho ---------------------------
(***************************************************************************)
(* AsyncPosixEchoTransport (src/ipscout/transport_posix.py): one ICMP      *)
(* socket, any number of concurrent probe() calls, and one reader callback *)
(* registered with the event loop.                                         *)
(*                                                                         *)
(* Between two awaits a coroutine or a callback runs alone on the loop,    *)
(* but the kernel does not wait for it: every system call is a step of its *)
(* own, and packets arrive between any two of them.                        *)
(***************************************************************************)
EXTENDS IcmpAnswers, Sequences, FiniteSets

CONSTANTS
  MaxArrivals,   \* bound: packets the network delivers in a behaviour
  QueueCap,      \* bound: entries a socket queue holds before it drops
  Pending,       \* a future that is not done
  Unanswered,    \* EchoResult() with nothing in it
  Reader,        \* _on_readable, when it has the loop
  Nobody         \* no callback is running: the loop is in select()

ASSUME LoopAssumption ==
  /\ MaxArrivals \in Nat /\ QueueCap \in Nat \ {0}
  /\ Pending \notin Packets /\ Unanswered \notin Packets
  /\ Reader \notin Probes /\ Nobody \notin Probes /\ Reader # Nobody

VARIABLES
  \* the kernel's side of the socket
  inbox,      \* datagrams not received yet
  errQueue,   \* ICMP errors not read yet (MSG_ERRQUEUE)
  sockErr,    \* the socket has a pending errno: the next call fails with it
  hop,        \* the socket's hop limit option
  sentWith,   \* the hop limit a probe's datagram left with, NoTtl if it did not
  arrivals,   \* packets delivered so far
  \* the transport
  waiters,    \* _waiters: the probes registered for an answer
  answer,     \* each probe's future
  installed,  \* _reader_installed
  closed,
  \* the coroutines and the loop
  stage,      \* "new", "running", "waiting", "ended" or "cancelled", per probe
  result,     \* the EchoResult a probe ended with
  running,    \* who has the loop
  step,       \* the system call it is about to make
  attempt,    \* of the running probe's _send: 0 before the first
  sawError    \* the drain in progress has read an entry

kernel    == <<inbox, errQueue, sockErr, hop, sentWith, arrivals>>
transport == <<waiters, answer, installed, closed>>
tasks     == <<stage, result, running, step, attempt, sawError>>
vars      == <<inbox, errQueue, sockErr, hop, sentWith, arrivals,
               waiters, answer, installed, closed,
               stage, result, running, step, attempt, sawError>>

Sent == {p \in Probes : sentWith[p] # NoTtl}

Init ==
  /\ inbox = <<>> /\ errQueue = <<>> /\ sockErr = FALSE
  /\ hop = SystemTtl /\ sentWith = [p \in Probes |-> NoTtl] /\ arrivals = 0
  /\ waiters = {} /\ answer = [p \in Probes |-> Pending]
  /\ installed = FALSE /\ closed = FALSE
  /\ stage = [p \in Probes |-> "new"]
  /\ result = [p \in Probes |-> Unanswered]
  /\ running = Nobody /\ step = "drain" /\ attempt = 0 /\ sawError = FALSE

-----------------------------------------------------------------------------
\* The network and the kernel.

DatagramArrives ==
  /\ ~closed /\ arrivals < MaxArrivals /\ Len(inbox) < QueueCap
  /\ \E d \in Receivable(Sent) : inbox' = Append(inbox, d)
  /\ arrivals' = arrivals + 1
  /\ UNCHANGED <<errQueue, sockErr, hop, sentWith, transport, tasks>>

ErrorArrives ==
  /\ ~closed /\ arrivals < MaxArrivals /\ Len(errQueue) < QueueCap
  /\ \E e \in QueueableErrors(Sent) : errQueue' = Append(errQueue, e)
  /\ sockErr' = TRUE
  /\ arrivals' = arrivals + 1
  /\ UNCHANGED <<inbox, hop, sentWith, transport, tasks>>

-----------------------------------------------------------------------------
\* _settle and _settle_datagram: which future a packet resolves, if any.

Named(e) == {p \in waiters : Concerns(e, p)}

\* Mutant of Settle: an ambiguous error is credited to one of those it fits.
SettleAnyNamed(e) ==
  LET open == {p \in Named(e) : answer[p] = Pending} IN
  IF open # {}
  THEN \E p \in open : answer' = [answer EXCEPT ![p] = e]
  ELSE UNCHANGED answer

Settle(e) ==
  IF \E p \in Named(e) : Named(e) = {p} /\ answer[p] = Pending
  THEN answer' = [answer EXCEPT ![CHOOSE p \in Named(e) : TRUE] = e]
  ELSE UNCHANGED answer

\* Mutant of SettleReply: the future is set without looking at done().
SettleReplyTwice(d) ==
  IF d.token \in waiters
  THEN answer' = [answer EXCEPT ![d.token] = d]
  ELSE UNCHANGED answer

SettleReply(d) ==
  IF d.token \in waiters /\ answer[d.token] = Pending
  THEN answer' = [answer EXCEPT ![d.token] = d]
  ELSE UNCHANGED answer

\* Mutant of SettleDatagram: every datagram takes the path of the errors.
SettleAsError(d) == Settle(d)

SettleDatagram(d) == IF d.kind = "reply" THEN SettleReply(d) ELSE Settle(d)

-----------------------------------------------------------------------------
\* One probe() call, up to its await.

\* Mutant of Begin: the hop limit is set by the first probe only.
BeginKeepsHop(p) ==
  /\ running = Nobody /\ ~closed /\ stage[p] = "new"
  /\ installed' = TRUE
  /\ hop' = IF HopLimited(p) /\ ~installed THEN Ttl[p] ELSE hop
  /\ stage' = [stage EXCEPT ![p] = "running"]
  /\ running' = p /\ step' = "drain" /\ attempt' = 0 /\ sawError' = FALSE
  /\ UNCHANGED <<inbox, errQueue, sockErr, sentWith, arrivals,
                 waiters, answer, closed, result>>

\* Registers the reader, sets the hop limit and starts the first drain.
Begin(p) ==
  /\ running = Nobody /\ ~closed /\ stage[p] = "new"
  /\ installed' = TRUE
  /\ hop' = IF HopLimited(p) THEN Ttl[p] ELSE hop
  /\ stage' = [stage EXCEPT ![p] = "running"]
  /\ running' = p /\ step' = "drain" /\ attempt' = 0 /\ sawError' = FALSE
  /\ UNCHANGED <<inbox, errQueue, sockErr, sentWith, arrivals,
                 waiters, answer, closed, result>>

\* The finally clause: unregister, whatever ended the wait.
Finish(p, outcome, how) ==
  /\ stage' = [stage EXCEPT ![p] = how]
  /\ result' = [result EXCEPT ![p] = outcome]
  /\ waiters' = waiters \ {p}
  /\ running' = Nobody /\ step' = "drain" /\ attempt' = 0 /\ sawError' = FALSE

\* _drain_errors, one recvmsg: taking an entry clears the pending errno
\* unless more are queued. The program collects the entries and settles them
\* when the queue is empty; nothing else runs on the loop in between.
ReadError ==
  /\ running # Nobody /\ step = "drain" /\ errQueue # <<>>
  /\ errQueue' = Tail(errQueue)
  /\ sockErr' = (Tail(errQueue) # <<>>)
  /\ sawError' = TRUE
  /\ Settle(Head(errQueue))
  /\ UNCHANGED <<inbox, hop, sentWith, arrivals, waiters, installed, closed,
                 stage, result, running, step, attempt>>

\* The drain before the send finds the queue empty: register, then send.
Register(p) ==
  /\ running = p /\ step = "drain" /\ errQueue = <<>> /\ attempt = 0
  /\ waiters' = waiters \cup {p}
  /\ step' = "send" /\ attempt' = 1
  /\ UNCHANGED <<kernel, answer, installed, closed,
                 stage, result, running, sawError>>

SendAccepted(p) ==
  /\ running = p /\ step = "send" /\ ~sockErr
  /\ sentWith' = [sentWith EXCEPT ![p] = hop]
  /\ stage' = [stage EXCEPT ![p] = "waiting"]
  /\ running' = Nobody /\ step' = "drain" /\ attempt' = 0 /\ sawError' = FALSE
  /\ UNCHANGED <<inbox, errQueue, sockErr, hop, arrivals, transport, result>>

\* sendto raises the errno of an error queued since the drain ...
SendRefusedByError(p) ==
  /\ running = p /\ step = "send" /\ sockErr
  /\ sockErr' = FALSE
  /\ step' = "drain" /\ sawError' = FALSE
  /\ UNCHANGED <<inbox, errQueue, hop, sentWith, arrivals, transport,
                 stage, result, running, attempt>>

\* ... or the local stack refuses the datagram: no route, or (with the error
\* queue, where the refusal is queued as well) too large for the interface.
SendRefusedLocally(p) ==
  /\ running = p /\ step = "send" /\ ~sockErr
  /\ \/ UNCHANGED <<errQueue, sockErr>>
     \/ /\ ErrorQueue /\ Len(errQueue) < QueueCap
        /\ \E e \in About(p) : /\ e.kind = "undelivered" /\ e.token = p
                               /\ errQueue' = Append(errQueue, e)
        /\ sockErr' = TRUE
  /\ step' = "drain" /\ sawError' = FALSE
  /\ UNCHANGED <<inbox, hop, sentWith, arrivals, transport,
                 stage, result, running, attempt>>

\* Mutant of Retry: the send is repeated for as long as errors are queued.
RetryForever(p) ==
  /\ running = p /\ step = "drain" /\ errQueue = <<>>
  /\ attempt > 0 /\ sawError
  /\ step' = "send" /\ attempt' = attempt + 1
  /\ UNCHANGED <<kernel, transport, stage, result, running, sawError>>

\* The drain after a refused send. Something was queued: send again, once.
Retry(p) ==
  /\ running = p /\ step = "drain" /\ errQueue = <<>>
  /\ attempt = 1 /\ sawError
  /\ step' = "send" /\ attempt' = 2
  /\ UNCHANGED <<kernel, transport, stage, result, running, sawError>>

\* Nothing was queued, or it was the second attempt: the probe never left.
SendFailed(p) ==
  /\ running = p /\ step = "drain" /\ errQueue = <<>>
  /\ attempt = 2 \/ (attempt = 1 /\ ~sawError)
  /\ Finish(p, Unanswered, "ended")
  /\ UNCHANGED <<kernel, answer, installed, closed>>

-----------------------------------------------------------------------------
\* The await.

ResultOf(a) == IF a.kind = "undelivered" THEN Unanswered ELSE a

Wake(p) ==
  /\ running = Nobody /\ stage[p] = "waiting" /\ answer[p] # Pending
  /\ Finish(p, ResultOf(answer[p]), "ended")
  /\ UNCHANGED <<kernel, answer, installed, closed>>

\* wait_for runs out. From Python 3.12 on the timeout cancels the task, so an
\* answer set in the same turn of the loop is lost with it.
Timeout(p) ==
  /\ running = Nobody /\ stage[p] = "waiting"
  /\ Finish(p, Unanswered, "ended")
  /\ UNCHANGED <<kernel, answer, installed, closed>>

\* The caller's own deadline cancels the coroutine.
Cancel(p) ==
  /\ running = Nobody /\ stage[p] = "waiting"
  /\ Finish(p, Unanswered, "cancelled")
  /\ UNCHANGED <<kernel, answer, installed, closed>>

-----------------------------------------------------------------------------
\* _on_readable. Readiness is level-triggered.

Readable == installed /\ (inbox # <<>> \/ errQueue # <<>>)

\* Mutant of ReaderCalled: the callback receives without draining errors.
ReaderSkipsDrain ==
  /\ running = Nobody /\ Readable
  /\ running' = Reader /\ step' = "recv" /\ sawError' = FALSE
  /\ UNCHANGED <<kernel, transport, stage, result, attempt>>

ReaderCalled ==
  /\ running = Nobody /\ Readable
  /\ running' = Reader /\ step' = "drain" /\ sawError' = FALSE
  /\ UNCHANGED <<kernel, transport, stage, result, attempt>>

ReaderDrained ==
  /\ running = Reader /\ step = "drain" /\ errQueue = <<>>
  /\ step' = "recv"
  /\ UNCHANGED <<kernel, transport, stage, result, running, attempt, sawError>>

Receive ==
  /\ running = Reader /\ step = "recv" /\ ~sockErr /\ inbox # <<>>
  /\ inbox' = Tail(inbox)
  /\ SettleDatagram(Head(inbox))
  /\ UNCHANGED <<errQueue, sockErr, hop, sentWith, arrivals,
                 waiters, installed, closed, tasks>>

\* recvfrom raises: EAGAIN, or the errno of an error queued meanwhile.
ReaderReturns ==
  /\ running = Reader /\ step = "recv" /\ (sockErr \/ inbox = <<>>)
  /\ sockErr' = FALSE
  /\ running' = Nobody /\ step' = "drain" /\ sawError' = FALSE
  /\ UNCHANGED <<inbox, errQueue, hop, sentWith, arrivals, transport,
                 stage, result, attempt>>

\* aclose. The probes still waiting are not told; their timeouts end them.
Close ==
  /\ running = Nobody /\ ~closed
  /\ closed' = TRUE /\ installed' = FALSE
  /\ UNCHANGED <<kernel, waiters, answer, tasks>>

-----------------------------------------------------------------------------
SendStep(p) ==
  \/ Register(p) \/ SendAccepted(p) \/ SendRefusedByError(p)
  \/ SendRefusedLocally(p) \/ Retry(p) \/ SendFailed(p)

ReaderStep == ReaderDrained \/ Receive \/ ReaderReturns

Arrival == DatagramArrives \/ ErrorArrives

Next ==
  \/ Arrival
  \/ \E p \in Probes : Begin(p) \/ SendStep(p) \/ Wake(p) \/ Timeout(p) \/ Cancel(p)
  \/ ReadError
  \/ ReaderCalled \/ ReaderStep
  \/ Close

\* A callback that has the loop keeps it until it returns, and the loop runs
\* every callback that is ready: a due timer, a resolved future, a readable
\* socket. Nothing is assumed of the network or of new calls.
Fairness ==
  /\ WF_vars(ReadError) /\ WF_vars(ReaderStep)
  /\ SF_vars(ReaderCalled)
  /\ \A p \in Probes : WF_vars(SendStep(p)) /\ SF_vars(Timeout(p))

Spec == Init /\ [][Next]_vars /\ Fairness

\* The same loop with timers that never come due: nothing but an answer, a
\* refusal or the caller ends a wait.
UntimedFairness ==
  /\ WF_vars(ReadError) /\ WF_vars(ReaderStep)
  /\ SF_vars(ReaderCalled)
  /\ \A p \in Probes : WF_vars(SendStep(p)) /\ SF_vars(Wake(p))

UntimedSpec == Init /\ [][Next]_vars /\ UntimedFairness

-----------------------------------------------------------------------------
KernelOK ==
  /\ inbox \in Seq(Packets) /\ errQueue \in Seq(Packets)
  /\ sockErr \in BOOLEAN
  /\ hop \in Nat \ {NoTtl} /\ sentWith \in [Probes -> Nat] /\ arrivals \in Nat

TransportOK ==
  /\ waiters \subseteq Probes /\ answer \in [Probes -> Packets \cup {Pending}]
  /\ installed \in BOOLEAN /\ closed \in BOOLEAN

TasksOK ==
  /\ stage \in [Probes -> {"new", "running", "waiting", "ended", "cancelled"}]
  /\ result \in [Probes -> Packets \cup {Unanswered}]
  /\ running \in Probes \cup {Reader, Nobody}
  /\ step \in {"drain", "send", "recv"} /\ attempt \in 0..2
  /\ sawError \in BOOLEAN

\* Every variable has its type; in particular a datagram is sent at most twice.
TypeOK == KernelOK /\ TransportOK /\ TasksOK

\* A packet that resolves a probe's future is about that probe. The one
\* exception the headers allow is a quote without the token, naming a probe
\* nobody waits for any more, or one whose hop limit could not expire, by the
\* sequence number this probe shares with it. What another outstanding probe
\* was sent is never taken from it, and strangers are never believed.
NoTheft ==
  [][\A p \in Probes :
       answer[p] = Pending /\ answer'[p] # Pending =>
         LET e == answer'[p] IN
         \/ e.about = p
         \/ /\ e.about \in Probes /\ e.token = NoToken
            /\ Sequence[e.about] = Sequence[p]
            /\ e.about \notin waiters \/ HopLimited(e.about) # HopLimited(p)]_vars

\* The first answer stands, and none reaches a probe whose wait is over:
\* set_result on a future that is done, or that nobody awaits, would raise
\* in the callback and lose the packets behind it.
FirstAnswerStands ==
  [][\A p \in Probes :
       answer[p] # Pending \/ stage[p] \in {"new", "ended", "cancelled"}
         => answer'[p] = answer[p]]_vars

\* The hop limit is an option of the socket, which every probe shares: a
\* datagram still leaves with the limit its own probe asked for.
HopLimitIsOwn ==
  \A p \in Sent : HopLimited(p) => sentWith[p] = Ttl[p]

\* ports.py, EchoTransport.probe: `ttl: Hop limit for this probe, or None for
\* the system default'.
DefaultIsSystem ==
  \A p \in Sent : ~HopLimited(p) => sentWith[p] = SystemTtl

\* An error nobody reads keeps the socket readable and refuses the next send,
\* so none lingers while the reader is registered.
ErrorsGetRead ==
  (installed /\ errQueue # <<>>) ~> (errQueue = <<>> \/ closed)

\* A reply the kernel holds for a waiting probe ends its wait, by itself: no
\* interleaving with errors, sends and other probes leaves it to the timer.
ReplyEndsWait ==
  \A p \in Probes :
    (stage[p] = "waiting" /\ \E i \in DOMAIN inbox : inbox[i].token = p /\ inbox[i].kind = "reply")
      ~> (stage[p] # "waiting" \/ closed)

-----------------------------------------------------------------------------
\* The transport keeps the contract of ports.py when, as run_ping and
\* traceroute do, no two probes on it share a sequence number.
DistinctSequences ==
  \A p, q \in Probes : Sequence[p] = Sequence[q] => p = q

Phase == [p \in Probes |-> CASE stage[p] = "new" -> "new"
                             [] stage[p] \in {"running", "waiting"} -> "pending"
                             [] OTHER -> "ended"]

OwnAnswers ==
  [p \in Probes |-> {a \in About(p) : a.kind = "reply" \/ (a.kind = "expired" /\ HopLimited(p))}]

Contract == INSTANCE EchoContract WITH phase <- Phase, Answers <- OwnAnswers

ImplementsContract == Contract!Spec
=============================================================================
