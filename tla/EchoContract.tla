---------------------------- MODULE EchoContract ----------------------------
(***************************************************************************)
(* What src/ipscout/ports.py promises of every echo transport: a probe     *)
(* that is started ends, once, either with an answer or without one, and   *)
(* an answer is an answer to that very probe.  Transports are shown to     *)
(* implement this specification.                                           *)
(***************************************************************************)
CONSTANTS
  Probes,
  Answers,       \* per probe, the answers it may end with
  Unanswered     \* the EchoResult() of a silent host

VARIABLES
  phase,         \* "new", "pending" or "ended", per probe
  result         \* what an ended probe returned

vars == <<phase, result>>

Init ==
  /\ phase = [p \in Probes |-> "new"]
  /\ result = [p \in Probes |-> Unanswered]

Start(p) ==
  /\ phase[p] = "new"
  /\ phase' = [phase EXCEPT ![p] = "pending"]
  /\ UNCHANGED result

\* A reply, or the Time Exceeded a hop-limited probe was sent to provoke.
Answered(p) ==
  /\ phase[p] = "pending"
  /\ phase' = [phase EXCEPT ![p] = "ended"]
  /\ \E a \in Answers[p] : result' = [result EXCEPT ![p] = a]

\* Timed out, refused, reported undelivered, or abandoned by its caller.
GivenUp(p) ==
  /\ phase[p] = "pending"
  /\ phase' = [phase EXCEPT ![p] = "ended"]
  /\ UNCHANGED result

End(p) == Answered(p) \/ GivenUp(p)

Next == \E p \in Probes : Start(p) \/ End(p)

Spec == Init /\ [][Next]_vars /\ \A p \in Probes : WF_vars(End(p))
=============================================================================
