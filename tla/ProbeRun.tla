------------------------------ MODULE ProbeRun ------------------------------
(***************************************************************************)
(* The callers of a transport: run_ping (src/ipscout/service.py) and the   *)
(* walk of trace_path (src/ipscout/traceroute.py), over the blocking POSIX *)
(* transport. Both send probes numbered from 1, one after the other; a     *)
(* walk sends the n-th with hop limit n and stops at the target.           *)
(***************************************************************************)
EXTENDS PosixEcho

CONSTANT Last    \* `times' of a ping, `max_hops' of a walk

ASSUME RunAssumption ==
  /\ Last \in Nat \ {0}
  /\ Probes = 1..Last /\ \A p \in Probes : Sequence[p] = p /\ Ttl[p] \in {p, NoTtl}

VARIABLES
  outcomes,   \* one per probe, in order: rtts, or hops
  over        \* the call has returned

vars == <<inbox, errQueue, sockErr, hop, sentWith, arrivals,
          running, step, attempt, sawError, mine, stage, result, cause, outcomes, over>>

Init == TransportInit /\ outcomes = <<>> /\ over = FALSE

Current == Len(outcomes) + 1

StartProbe ==
  /\ ~over /\ Begin(Current)
  /\ UNCHANGED <<outcomes, over>>

\* _to_hop: anything but a router's report that answers is the target.
Reached(p) == HopLimited(p) /\ result[p] # Unanswered /\ result[p].kind = "reply"

\* Mutant of RecordOutcome: the walk goes on behind the target.
RecordAndGoOn ==
  /\ ~over /\ stage[Current] = "ended"
  /\ outcomes' = Append(outcomes, result[Current])
  /\ over' = (Current = Last)
  /\ UNCHANGED transportVars

\* Mutant of RecordOutcome: a silent probe is tried again instead of recorded.
RecordAnswersOnly ==
  /\ ~over /\ stage[Current] = "ended" /\ result[Current] # Unanswered
  /\ outcomes' = Append(outcomes, result[Current])
  /\ over' = (Reached(Current) \/ Current = Last)
  /\ UNCHANGED transportVars

\* Silence is recorded like an answer.
RecordOutcome ==
  /\ ~over /\ stage[Current] = "ended"
  /\ outcomes' = Append(outcomes, result[Current])
  /\ over' = (Reached(Current) \/ Current = Last)
  /\ UNCHANGED transportVars

Next ==
  \/ StartProbe \/ RecordOutcome
  \/ /\ \/ Arrival \/ ReadError
        \/ \E p \in Probes : ProbeStep(p) \/ TimeUp(p)
     /\ UNCHANGED <<outcomes, over>>

Spec ==
  /\ Init /\ [][Next]_vars
  /\ TransportFairness /\ WF_vars(StartProbe) /\ WF_vars(RecordOutcome)

-----------------------------------------------------------------------------
\* Every variable has its type, and no outcome is missing or too many.
TypeOK ==
  /\ TransportTypeOK
  /\ outcomes \in Seq(Packets \cup {Unanswered}) /\ Len(outcomes) <= Last
  /\ over \in BOOLEAN

\* Each hop or round trip is what its own probe was answered: an answer that
\* comes after its probe was given up is not credited to a later one.
OwnOutcomes ==
  \A i \in DOMAIN outcomes : outcomes[i] # Unanswered => outcomes[i].about = i

\* A walk never probes behind the target: once a hop was the target no later
\* probe leaves.
NeverPastTheTarget ==
  \A p \in Sent : \A q \in 1..(p - 1) : ~Reached(q)

\* A run ends, however many of its probes are lost, refused or never
\* answered, with nobody but the timers to end their waits.
RunEnds == <>over
=============================================================================
