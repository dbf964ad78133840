------------------------------ MODULE EchoCall ------------------------------
(***************************************************************************)
(* ping and is_reachable with their asyncio twins (src/ipscout/api.py),    *)
(* the runs over a transport they make (service.py, factory.py), the TCP   *)
(* and Windows transports (transport_tcp.py, transport_windows.py) and the *)
(* POSIX one as its caller sees it.                                        *)
(*                                                                         *)
(* A call resolves its target once, checks its arguments, opens a          *)
(* transport, probes, and closes it however the run ended.  ping tries one *)
(* method; is_reachable tries ICMP and then TCP, each over a transport of  *)
(* its own.  An awaited call can be cancelled at every await, and on       *)
(* Windows the thread that makes the blocking call then goes on without it.*)
(***************************************************************************)
EXTENDS Resolve, FiniteSets

CONSTANTS
  Targets,      \* what callers write
  NameAnswers,  \* what the resolver may return for a name, one sequence per lookup
  Times         \* echoes per ping

ASSUME EchoAssumption ==
  /\ Times \in Nat \ {0}
  /\ \A target \in Targets :
       /\ target.form \in {"blank", "name", "literal"}
       /\ target.zone \in Links \cup BadZones \cup {"none"}
       /\ target.form = "literal" => target.family \in Families
  /\ \A infos \in NameAnswers :
       /\ infos \in Seq(ToSet(infos))
       /\ \A i \in DOMAIN infos : infos[i].scope \in Links \cup {"none"}

VARIABLES
  call,       \* the arguments, and where the call runs
  step,       \* where the call is
  address,    \* the one address it resolved its target to
  legs,       \* the methods still to try
  method,     \* the method of the transport that is open
  transport,  \* "none", "open" or "closed"
  outcomes,   \* the probes' results over this transport
  worker,     \* the Windows pool thread: "idle", "queued" or "calling"
  asked,      \* every lookup made and what it returned
  sent,       \* every probe: [method, address, outcome]
  answer      \* what the call ended with

echoVars == <<call, step, address, legs, method, transport, outcomes, worker, asked, sent, answer>>

NoAnswer == [kind |-> "none", yes |-> FALSE, sent |-> 0, received |-> 0, method |-> "none"]
Ended(kind) == [NoAnswer EXCEPT !.kind = kind]

Calls ==
  [kind : {"ping", "reachable"}, mode : {"sync", "async"}, platform : {"posix", "windows"},
   target : Targets, family : {"any"} \cup Families, fallback : BOOLEAN, raising : BOOLEAN,
   bad : {"none", "settings", "port"}]

EchoFresh ==
  /\ address = NoAddress /\ legs = <<>> /\ method = "none"
  /\ transport = "none" /\ outcomes = <<>> /\ worker = "idle"
  /\ asked = {} /\ sent = <<>> /\ answer = NoAnswer

EchoInit ==
  /\ call \in {c \in Calls : c.kind = "reachable" => ~c.fallback /\ ~c.raising}
  /\ step = "resolve"
  /\ EchoFresh

\* What the system resolver may return: the literal itself, or for a name no
\* address of a family not asked for; Refused stands for gaierror.
Infos(target, family) ==
  {Refused} \cup
  (IF target.form = "literal"
     THEN {<<Info(target.family, target.host, target.linkLocal, "none")>>}
     ELSE {infos \in NameAnswers :
             \A i \in DOMAIN infos : infos[i].family \in Families => family \in {"any", infos[i].family}})

-----------------------------------------------------------------------------
\* How a call ends

End(result) == step' = "done" /\ answer' = result

\* Raised before a probe was sent: _NOT_REACHED, or _suppressed, or raised.
Refusal ==
  Ended(CASE call.kind = "reachable" -> "reachability"
          [] call.raising            -> "raised"
          [] OTHER                   -> "suppressed")

Resolve ==
  /\ step = "resolve"
  /\ \E infos \in Infos(call.target, call.family) :
       LET found == ResolveOne(call.target, call.family, infos)
       IN /\ asked' = asked \cup {infos}
          /\ address' = found
          /\ IF found = NoAddress THEN End(Refusal) ELSE step' = "check" /\ UNCHANGED answer
  /\ UNCHANGED <<call, legs, method, transport, outcomes, worker, sent>>

\* PingRequest and the TCP port are checked together, except that a bad port
\* costs is_reachable no more than its TCP leg.
ArgumentsFit == call.bad = "none" \/ (call.bad = "port" /\ call.kind = "reachable")
ReachabilityLegs == IF call.bad = "port" THEN <<"icmp">> ELSE <<"icmp", "tcp">>

Check ==
  /\ step = "check"
  /\ IF ~ArgumentsFit
       THEN End(Refusal) /\ UNCHANGED legs
       ELSE /\ step' = IF call.kind = "ping" THEN "choose" ELSE "open"
            /\ legs' = IF call.kind = "ping" THEN <<>> ELSE ReachabilityLegs
            /\ UNCHANGED answer
  /\ UNCHANGED <<call, address, method, transport, outcomes, worker, asked, sent>>

\* _probe_method: icmp_available opens a socket of its own and closes it.
Choose ==
  /\ step = "choose"
  /\ \E available \in (IF call.fallback THEN BOOLEAN ELSE {TRUE}) :
       legs' = IF available THEN <<"icmp">> ELSE <<"tcp">>
  /\ step' = "open"
  /\ UNCHANGED <<call, address, method, transport, outcomes, worker, asked, sent, answer>>

\* A leg that could not run or did not answer: the next one, or the end.
LegFails(failure) ==
  IF Len(legs) > 1
    THEN step' = "open" /\ legs' = Tail(legs) /\ UNCHANGED answer
    ELSE End(failure) /\ UNCHANGED legs

\* make_transport: a TCP transport opens nothing until it probes.
Open ==
  /\ step = "open"
  /\ method' = Head(legs) /\ transport' = "open" /\ outcomes' = <<>>
  /\ step' = "probe"
  /\ UNCHANGED <<call, address, legs, worker, asked, sent, answer>>

\* No privilege for the socket, or no ICMP handle.
OpenRefused ==
  /\ step = "open" /\ Head(legs) = "icmp"
  /\ LegFails(Refusal)
  /\ UNCHANGED <<call, address, method, transport, outcomes, worker, asked, sent>>

-----------------------------------------------------------------------------
\* run_ping, arun_ping

OnWindows == call.platform = "windows" /\ method = "icmp"
\* A connect that is accepted or refused is a reply, any other end of it is none.
ConnectOutcomes == {"reply", "nothing"}
\* The POSIX transports, as their callers without a hop limit see them.
PosixOutcomes == {"reply", "nothing"}
\* echo_outcome: IP_TTL_EXPIRED_TRANSIT is reported with its round trip.
WindowsOutcomes == {"reply", "expired", "nothing"}
Outcomes ==
  IF method = "tcp" THEN ConnectOutcomes ELSE IF OnWindows THEN WindowsOutcomes ELSE PosixOutcomes

\* AsyncWindowsEchoTransport.probe hands the blocking call to its pool.
Probe ==
  /\ step = "probe"
  /\ step' = "wait"
  /\ worker' = IF OnWindows /\ call.mode = "async" THEN "queued" ELSE worker
  /\ UNCHANGED <<call, address, legs, method, transport, outcomes, asked, sent, answer>>

WorkerStarts ==
  /\ worker = "queued"
  /\ worker' = "calling"
  /\ UNCHANGED <<call, step, address, legs, method, transport, outcomes, asked, sent, answer>>

\* A thread nobody waits for any more.
WorkerReturnsAlone ==
  /\ worker = "calling" /\ step = "done"
  /\ worker' = "idle"
  /\ UNCHANGED <<call, step, address, legs, method, transport, outcomes, asked, sent, answer>>

EchoesWanted == IF call.kind = "ping" THEN Times ELSE 1

\* The probe returns, in the thread that makes the blocking call on Windows.
Outcome ==
  /\ step = "wait" /\ worker # "queued"
  /\ \E outcome \in Outcomes :
       /\ outcomes' = Append(outcomes, outcome)
       /\ sent' = Append(sent, [method |-> method, address |-> address, outcome |-> outcome])
  /\ worker' = "idle"
  /\ step' = IF Len(outcomes') < EchoesWanted THEN "pause" ELSE "close"
  /\ UNCHANGED <<call, address, legs, method, transport, asked, answer>>

\* _pace
Pause ==
  /\ step = "pause"
  /\ step' = "probe"
  /\ UNCHANGED <<call, address, legs, method, transport, outcomes, worker, asked, sent, answer>>

\* _probe_socket is refused, outside the try of TcpEchoTransport.probe: ping
\* lets the OSError through whatever raise_on_error says.
ProbeRaises ==
  /\ step = "wait" /\ method = "tcp"
  /\ transport' = "closed"
  /\ IF call.kind = "ping" THEN End(Ended("escaped")) /\ UNCHANGED legs
                           ELSE LegFails(Ended("reachability"))
  /\ UNCHANGED <<call, address, method, outcomes, worker, asked, sent>>

\* EchoResult.answered: anything that was timed, an expired hop limit included.
Timed(outcome) == outcome \in {"reply", "expired"}
Received == Cardinality({i \in DOMAIN outcomes : Timed(outcomes[i])})

PingResult ==
  [kind |-> "result", yes |-> Received > 0, sent |-> Len(outcomes), received |-> Received, method |-> method]
\* Any answer ends is_reachable; without one the next leg is tried.
TellOutcome ==
  IF call.kind = "ping" THEN End(PingResult) /\ UNCHANGED legs
  ELSE IF Received > 0 THEN End([Ended("reachability") EXCEPT !.yes = TRUE]) /\ UNCHANGED legs
  ELSE LegFails(Ended("reachability"))

\* Mutated form: the transport is left open.
CloseForgotten ==
  /\ step = "close"
  /\ TellOutcome
  /\ UNCHANGED <<call, address, method, transport, outcomes, worker, asked, sent>>

\* The transport's __exit__, then _build_response or _answers.
Close ==
  /\ step = "close"
  /\ transport' = "closed"
  /\ TellOutcome
  /\ UNCHANGED <<call, address, method, outcomes, worker, asked, sent>>

\* The task is cancelled at an await.  aclose closes the ICMP handle and drops
\* what is queued, but a call that is running runs on.
Cancel ==
  /\ step \in {"resolve", "wait", "pause"} /\ call.mode = "async"
  /\ End(Ended("cancelled"))
  /\ transport' = IF transport = "open" THEN "closed" ELSE transport
  /\ worker' = IF worker = "queued" THEN "idle" ELSE worker
  /\ UNCHANGED <<call, address, legs, method, outcomes, asked, sent>>

EchoNext ==
  \/ Resolve \/ Check \/ Choose \/ Open \/ OpenRefused
  \/ Probe \/ Outcome \/ Pause \/ ProbeRaises \/ Close \/ Cancel
  \/ WorkerStarts \/ WorkerReturnsAlone

EchoSpec == EchoInit /\ [][EchoNext]_echoVars

-----------------------------------------------------------------------------
\* Every probe of a call, over ICMP and over TCP alike, goes to the one address
\* of its one lookup: of the family asked for, the literal and zone as written,
\* never a link-local address without the interface to send on (resolve_one,
\* _reachability_legs).
ProbesGoWhereAsked ==
  \A i \in DOMAIN sent :
    LET to == sent[i].address IN
    /\ to.family \in Families /\ call.family \in {"any", to.family}
    /\ to.linkLocal /\ to.family = "ipv6" => to.zone \in Links
    /\ \A infos \in asked : \E j \in DOMAIN infos :
         /\ infos[j].host = to.host /\ infos[j].family = to.family
         /\ \A k \in 1..(j - 1) : infos[k].family \notin Families
    /\ call.target.form = "literal" => to.host = call.target.host /\ to.zone = call.target.zone

TimedOver(m) == \E i \in DOMAIN sent : sent[i].method = m /\ Timed(sent[i].outcome)

PingTellsWhatCameBack ==
  /\ answer.kind = "result" =>
       /\ answer.sent = Times /\ Len(sent) = Times
       /\ answer.received = Cardinality({i \in DOMAIN sent : Timed(sent[i].outcome)})
       /\ answer.yes = TimedOver(answer.method)
       /\ \A i \in DOMAIN sent : sent[i].method = answer.method
  /\ answer.kind \in {"raised", "suppressed"} => sent = <<>> /\ call.raising = (answer.kind = "raised")

ReachableTellsWhetherAnyTryAnswered ==
  answer.kind = "reachability" => answer.yes = (TimedOver("icmp") \/ TimedOver("tcp"))

\* TCP is tried only where it was allowed, and by is_reachable only after ICMP.
TcpIsTheLastResort ==
  \A i \in DOMAIN sent : sent[i].method = "tcp" =>
    IF call.kind = "ping" THEN call.fallback
    ELSE call.bad # "port" /\ \A j \in 1..(i - 1) : ~Timed(sent[j].outcome)

\* A failure that passes raise_on_error by is the one of a TCP probe's socket.
OnlyTcpSocketsEscape ==
  answer.kind = "escaped" => call.kind = "ping" /\ method = "tcp"

\* What ping and is_reachable answer is what their probes met: every echo
\* counted, no try skipped or counted twice, and a refusal before the first
\* probe raised or suppressed as raise_on_error asks.  It does not say that of
\* every failure: the OSError of a TCP socket that cannot be had leaves ping
\* whatever raise_on_error says, and is_reachable never.  The transport is closed
\* however the call ended, a cancellation half-way through a wait included
\* (run_ping, _answers, aclose).
EchoAnswersAreTrue ==
  /\ PingTellsWhatCameBack /\ ReachableTellsWhetherAnyTryAnswered /\ TcpIsTheLastResort
  /\ OnlyTcpSocketsEscape
  /\ answer.kind # "none" => transport # "open" /\ worker # "queued"

\* ports.py on ttl_expired: "ping treats it as no answer".
ReachedMeansReply ==
  answer.yes => \E i \in DOMAIN sent : sent[i].outcome = "reply"

=============================================================================
