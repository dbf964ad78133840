----------------------------- MODULE PosixEcho -----------------------------
(***************************************************************************)
(* PosixEchoTransport (src/ipscout/transport_posix.py): one ICMP socket    *)
(* and one blocking probe() at a time. What an earlier probe was given up  *)
(* on may still arrive, and is read by a later one.                        *)
(***************************************************************************)
EXTENDS IcmpAnswers, Sequences

CONSTANTS
  MaxArrivals,   \* bound: packets and failures the network delivers
  QueueCap,      \* entries a socket queue holds before it drops
  Nothing,       \* no packet
  Unanswered,    \* EchoResult() with nothing in it
  Nobody         \* no probe is running

ASSUME SocketAssumption ==
  /\ MaxArrivals \in Nat /\ QueueCap \in Nat \ {0}
  /\ Nothing \notin Packets /\ Unanswered \notin Packets /\ Nobody \notin Probes

VARIABLES
  \* the kernel's side of the socket, as in AsyncPosixEcho
  inbox, errQueue, sockErr, hop, sentWith, arrivals,
  \* the probe that is running, and the step it is at: "clear", "resend" and
  \* "inquire" read the error queue, before the send, after a refused one,
  \* and after a receive that raised
  running, step,
  attempt,    \* of _send: 0 before the first
  sawError,   \* the drain in progress has read an entry
  mine,       \* the first entry of this drain that is about the probe
  stage,      \* "new", "pending" or "ended", per probe
  result,     \* the EchoResult a probe ended with
  cause       \* history: the packet that ended a probe's wait

kernel  == <<inbox, errQueue, sockErr, hop, sentWith, arrivals>>
call    == <<running, step, attempt, sawError, mine>>
outcome == <<stage, result, cause>>
transportVars == <<inbox, errQueue, sockErr, hop, sentWith, arrivals,
                   running, step, attempt, sawError, mine, stage, result, cause>>

Sent == {p \in Probes : sentWith[p] # NoTtl}

TransportInit ==
  /\ inbox = <<>> /\ errQueue = <<>> /\ sockErr = FALSE
  /\ hop = SystemTtl /\ sentWith = [p \in Probes |-> NoTtl] /\ arrivals = 0
  /\ running = Nobody /\ step = "clear" /\ attempt = 0
  /\ sawError = FALSE /\ mine = Nothing
  /\ stage = [p \in Probes |-> "new"]
  /\ result = [p \in Probes |-> Unanswered] /\ cause = [p \in Probes |-> Nothing]

-----------------------------------------------------------------------------
\* The network and the kernel. An error that finds its queue full leaves only
\* its errno, and so does an interface that goes down.

DatagramArrives ==
  /\ arrivals < MaxArrivals /\ Len(inbox) < QueueCap
  /\ \E d \in Receivable(Sent) : inbox' = Append(inbox, d)
  /\ arrivals' = arrivals + 1
  /\ UNCHANGED <<errQueue, sockErr, hop, sentWith, call, outcome>>

ErrorArrives ==
  /\ arrivals < MaxArrivals /\ Len(errQueue) < QueueCap
  /\ \E e \in QueueableErrors(Sent) : errQueue' = Append(errQueue, e)
  /\ sockErr' = TRUE /\ arrivals' = arrivals + 1
  /\ UNCHANGED <<inbox, hop, sentWith, call, outcome>>

SocketFails ==
  /\ arrivals < MaxArrivals
  /\ sockErr' = TRUE /\ arrivals' = arrivals + 1
  /\ UNCHANGED <<inbox, errQueue, hop, sentWith, call, outcome>>

Arrival == DatagramArrives \/ ErrorArrives \/ SocketFails

-----------------------------------------------------------------------------
\* probe()

Begin(p) ==
  /\ running = Nobody /\ stage[p] = "new"
  /\ hop' = IF HopLimited(p) THEN Ttl[p] ELSE hop
  /\ running' = p /\ step' = "clear" /\ attempt' = 0 /\ sawError' = FALSE /\ mine' = Nothing
  /\ stage' = [stage EXCEPT ![p] = "pending"]
  /\ UNCHANGED <<inbox, errQueue, sockErr, sentWith, arrivals, result, cause>>

\* probe() returns, because of `packet' or of Nothing.
Finish(p, packet) ==
  /\ stage' = [stage EXCEPT ![p] = "ended"]
  /\ cause' = [cause EXCEPT ![p] = packet]
  /\ result' = [result EXCEPT ![p] =
       IF packet = Nothing \/ packet.kind = "undelivered" THEN Unanswered ELSE packet]
  /\ running' = Nobody /\ step' = "clear" /\ attempt' = 0 /\ sawError' = FALSE /\ mine' = Nothing

GoTo(s) == step' = s /\ sawError' = FALSE /\ mine' = Nothing

\* Mutant of ReadError: any error that raised is taken for the probe's own.
ReadErrorAsMine ==
  /\ running # Nobody /\ step \in {"clear", "resend", "inquire"} /\ errQueue # <<>>
  /\ errQueue' = Tail(errQueue) /\ sockErr' = (Tail(errQueue) # <<>>)
  /\ sawError' = TRUE
  /\ mine' = IF step = "inquire" /\ mine = Nothing /\ IsError(Head(errQueue))
             THEN Head(errQueue) ELSE mine
  /\ UNCHANGED <<inbox, hop, sentWith, arrivals, running, step, attempt, outcome>>

\* _drain_errors, one recvmsg: only the drain after a receive that raised
\* looks for the probe's own error, the others discard what they read.
ReadError ==
  /\ running # Nobody /\ step \in {"clear", "resend", "inquire"} /\ errQueue # <<>>
  /\ errQueue' = Tail(errQueue) /\ sockErr' = (Tail(errQueue) # <<>>)
  /\ sawError' = TRUE
  /\ mine' = IF step = "inquire" /\ mine = Nothing /\ Concerns(Head(errQueue), running)
             THEN Head(errQueue) ELSE mine
  /\ UNCHANGED <<inbox, hop, sentWith, arrivals, running, step, attempt, outcome>>

Cleared(p) ==
  /\ running = p /\ step = "clear" /\ errQueue = <<>>
  /\ GoTo("send") /\ attempt' = 1
  /\ UNCHANGED <<kernel, running, outcome>>

SendAccepted(p) ==
  /\ running = p /\ step = "send" /\ ~sockErr
  /\ sentWith' = [sentWith EXCEPT ![p] = hop]
  /\ GoTo("recv")
  /\ UNCHANGED <<inbox, errQueue, sockErr, hop, arrivals, running, attempt, outcome>>

\* sendto raises the errno of an error queued since the drain, or its own:
\* no route, or (queued as well, with the error queue) too large to send.
SendRefused(p) ==
  /\ running = p /\ step = "send"
  /\ \/ sockErr' = FALSE /\ UNCHANGED errQueue
     \/ /\ ErrorQueue /\ ~sockErr /\ Len(errQueue) < QueueCap
        /\ \E e \in About(p) : /\ e.kind = "undelivered" /\ e.token = p
                               /\ errQueue' = Append(errQueue, e)
        /\ sockErr' = TRUE
  /\ GoTo("resend")
  /\ UNCHANGED <<inbox, hop, sentWith, arrivals, running, attempt, outcome>>

\* Mutant of Resend: the send is repeated for as long as errors are queued.
ResendForever(p) ==
  /\ running = p /\ step = "resend" /\ errQueue = <<>> /\ sawError
  /\ GoTo("send") /\ attempt' = attempt + 1
  /\ UNCHANGED <<kernel, running, outcome>>

\* Something was queued: send again, once.
Resend(p) ==
  /\ running = p /\ step = "resend" /\ errQueue = <<>> /\ sawError /\ attempt = 1
  /\ GoTo("send") /\ attempt' = 2
  /\ UNCHANGED <<kernel, running, outcome>>

SendFailed(p) ==
  /\ running = p /\ step = "resend" /\ errQueue = <<>> /\ (attempt = 2 \/ ~sawError)
  /\ Finish(p, Nothing)
  /\ UNCHANGED kernel

-----------------------------------------------------------------------------
\* _await

\* Mutant of AnswerIn: the token is not compared.
AnswerInBySequence(d, p) ==
  IF d.kind = "reply" THEN d.seq = Sequence[p] ELSE Concerns(d, p)

\* _answer_in
AnswerIn(d, p) ==
  IF d.kind = "reply" THEN d.seq = Sequence[p] /\ d.token = p ELSE Concerns(d, p)

Receive(p) ==
  /\ running = p /\ step = "recv" /\ ~sockErr /\ inbox # <<>>
  /\ inbox' = Tail(inbox)
  /\ IF AnswerIn(Head(inbox), p)
     THEN Finish(p, Head(inbox))
     ELSE UNCHANGED <<call, outcome>>
  /\ UNCHANGED <<errQueue, sockErr, hop, sentWith, arrivals>>

ReceiveRaises(p) ==
  /\ running = p /\ step = "recv" /\ sockErr
  /\ sockErr' = FALSE
  /\ GoTo("inquire")
  /\ UNCHANGED <<inbox, errQueue, hop, sentWith, arrivals, running, attempt, outcome>>

\* The error is this probe's, or there is no entry behind it ...
ErrorEndsWait(p) ==
  /\ running = p /\ step = "inquire" /\ errQueue = <<>> /\ (mine # Nothing \/ ~sawError)
  /\ Finish(p, mine)
  /\ UNCHANGED kernel

\* ... or it is another's, and the wait goes on for what is left of it.
WaitGoesOn(p) ==
  /\ running = p /\ step = "inquire" /\ errQueue = <<>> /\ mine = Nothing /\ sawError
  /\ GoTo("recv")
  /\ UNCHANGED <<kernel, running, attempt, outcome>>

TimeUp(p) ==
  /\ running = p /\ step = "recv"
  /\ Finish(p, Nothing)
  /\ UNCHANGED kernel

ProbeStep(p) ==
  \/ Cleared(p) \/ SendAccepted(p) \/ SendRefused(p) \/ Resend(p) \/ SendFailed(p)
  \/ Receive(p) \/ ReceiveRaises(p) \/ ErrorEndsWait(p) \/ WaitGoesOn(p)

\* A call that can go on does, and the deadline is looked at in every turn of
\* the loop, so that no stream of strangers' packets can put it off.
TransportFairness ==
  /\ WF_transportVars(ReadError)
  /\ \A p \in Probes : WF_transportVars(ProbeStep(p)) /\ SF_transportVars(TimeUp(p))

-----------------------------------------------------------------------------
TransportTypeOK ==
  /\ inbox \in Seq(Packets) /\ errQueue \in Seq(Packets) /\ sockErr \in BOOLEAN
  /\ hop \in Nat \ {NoTtl} /\ sentWith \in [Probes -> Nat] /\ arrivals \in Nat
  /\ running \in Probes \cup {Nobody} /\ attempt \in 0..2 /\ sawError \in BOOLEAN
  /\ step \in {"clear", "send", "resend", "recv", "inquire"}
  /\ mine \in Packets \cup {Nothing}
  /\ stage \in [Probes -> {"new", "pending", "ended"}]
  /\ result \in [Probes -> Packets \cup {Unanswered}]
  /\ cause \in [Probes -> Packets \cup {Nothing}]

\* A packet that ends a wait, with or without an answer, is about the probe
\* that waits: neither a stranger's error nor one of an earlier probe, read
\* late from the same queues, cuts a wait short.
WaitEndsForItsOwnReason ==
  \A p \in Probes : cause[p] # Nothing => cause[p].about = p

\* The transport keeps the contract of ports.py when, as in every caller in
\* the package, no two probes share a sequence number.
OwnAnswers ==
  [p \in Probes |-> {a \in About(p) : a.kind = "reply" \/ (a.kind = "expired" /\ HopLimited(p))}]

Contract == INSTANCE EchoContract WITH phase <- stage, Answers <- OwnAnswers

ImplementsContract == Contract!Spec
=============================================================================
