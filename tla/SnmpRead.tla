------------------------------ MODULE SnmpRead ------------------------------
(***************************************************************************)
(* Reading the SNMP system group of one host (src/ipscout/snmp.py, with    *)
(* the message checks of snmpber.py and the deadline of deadline.py).      *)
(*                                                                         *)
(* The reader asks over a connected UDP socket.  An SNMPv1 agent fails the *)
(* whole request when it lacks one value, so the reader asks again without *)
(* that value, under a new random request id; one deadline covers the name *)
(* lookup and every round.  Datagrams and socket errors are queued in the  *)
(* order they arrive: an answer may be late, doubled, or belong to another *)
(* round.                                                                  *)
(***************************************************************************)
EXTENDS Integers, Sequences, FiniteSets, SequencesExt

CONSTANTS
  System,     \* the values of the system group, in the order they are asked for
  Numeric,    \* the values whose octets can be refused (object id, uptime)
  Ids,        \* the request ids secrets.randbelow can draw
  Stray,      \* a request id this read never draws: another read's answer
  Timeout,    \* the deadline, counted from the start of the read
  MaxQueue    \* bound: arrivals waiting in the inbox

Values == Range(System)
Versions == {"v1", "v2c"}
States == {"answered", "silent", "refused", "error", "unreachable"}
NoResult == [state |-> "none", present |-> {}]

ASSUME SnmpAssumption ==
  /\ System \in Seq(Values) /\ IsInjective(System) /\ Numeric \subseteq Values
  /\ Ids \subseteq Nat /\ Ids # {} /\ Stray \notin Ids
  /\ Timeout \in Nat \ {0} /\ MaxQueue \in Nat

VARIABLES
  version,    \* settings.version
  lacks,      \* the values the agent does not have
  now,        \* the loop's clock
  resolver,   \* the thread that looks the name up
  pc,         \* where the read is
  wanted,     \* the values still asked for
  requestId,  \* the id of the request being listened for
  sent,       \* every request that left: [id, wanted]
  inbox,      \* _Inbox.arrivals
  discarded,  \* a datagram of this round was set aside
  result

environment == <<version, lacks>>
vars == <<version, lacks, now, resolver, pc, wanted, requestId, sent, inbox, discarded, result>>

-----------------------------------------------------------------------------
\* What can arrive.  A datagram is an SnmpMessage or octets parse_message
\* refuses; the element after each name holds a value, bad octets, an
\* exception tag or another type.

Element == {"value", "badOctets", "exception", "otherType"}
\* Octets the reader refuses exist only for the numeric values.
Elements(v) == IF v \in Numeric THEN Element ELSE Element \ {"badOctets"}

Malformed == [kind |-> "malformed"]
SocketErrors == {[kind |-> "portUnreachable"], [kind |-> "otherError"]}
Message(id, pdu, wire, status, index, bindings) ==
  [kind |-> "message", id |-> id, pdu |-> pdu, version |-> wire,
   status |-> status, index |-> index, bindings |-> bindings]
Bound(names, content) == [i \in DOMAIN names |-> [name |-> names[i], element |-> content[names[i]]]]

\* encode_get_request: each name bound to NULL.
Request(id, names) == [id |-> id, wanted |-> names]

\* An agent that speaks the version asked in: what it has, what it lacks.
TrueAnswer(request) ==
  LET names == request.wanted
      held == [v \in Values |-> IF v \in lacks THEN "exception" ELSE "value"]
      missing == {i \in DOMAIN names : names[i] \in lacks}
  IN IF version = "v2c" \/ missing = {}
       THEN {Message(request.id, "response", version, "none", 0, Bound(names, held))}
       ELSE {Message(request.id, "response", version, "noSuchName", i, <<>>) : i \in missing}

\* Agents that break the protocol without claiming to lack what they have.
FaultyAnswer(request) ==
  LET names == request.wanted
      ok == [v \in Values |-> "value"]
  IN {Message(request.id, "response", version, "genErr", 1, <<>>),
      Message(request.id, "response", version, "noSuchName", 0, <<>>),
      Message(request.id, "response", version, "noSuchName", Len(names) + 1, <<>>),
      Message(request.id, "report", version, "noSuchName", 1, <<>>),
      Message(request.id, "report", version, "none", 0, Bound(names, ok)),
      Message(request.id, "response", "other", "none", 0, Bound(names, ok)),
      Message(request.id, "response", version, "none", 0, Bound(Tail(names), ok))}
     \cup UNION {{Message(request.id, "response", version, "none", 0, Bound(names, [ok EXCEPT ![w] = e])) :
                  w \in ToSet(names)} : e \in {"badOctets", "otherType"}}

WellFormed(m) == \A i \in DOMAIN m.bindings : m.bindings[i].element \in Elements(m.bindings[i].name)
Answers(request) == {m \in TrueAnswer(request) \cup FaultyAnswer(request) : WellFormed(m)}

\* A connected socket passes only the target's datagrams: answers to requests
\* of this read, and answers to requests of another read from the same port.
Arrivals ==
  (UNION {Answers(request) : request \in sent}) \cup SocketErrors
  \cup {Malformed, Message(Stray, "response", version, "none", 0, <<>>)}

-----------------------------------------------------------------------------
Init ==
  /\ version \in Versions /\ lacks \in SUBSET Values
  /\ now = 0 /\ resolver = "running" /\ pc = "resolve"
  /\ wanted = System /\ requestId = Stray
  /\ sent = {} /\ inbox = <<>> /\ discarded = FALSE
  /\ result = NoResult

Tick ==
  /\ now < Timeout
  /\ now' = now + 1
  /\ UNCHANGED <<environment, resolver, pc, wanted, requestId, sent, inbox, discarded, result>>

\* The socket is closed on the way out, so nothing arrives afterwards.
End(state, present) ==
  /\ pc' = "done" /\ result' = [state |-> state, present |-> present]
  /\ inbox' = <<>>

\* within: no wait starts or goes on once the deadline is reached.
InTime == now < Timeout

Arrive ==
  /\ pc \in {"ask", "listen"} /\ Len(inbox) < MaxQueue
  /\ \E arrival \in Arrivals : inbox' = Append(inbox, arrival)
  /\ UNCHANGED <<environment, now, resolver, pc, wanted, requestId, sent, discarded, result>>

-----------------------------------------------------------------------------
\* _read_one

\* The lookup runs in a thread nobody can stop.
LookupReturns ==
  /\ resolver = "running"
  /\ resolver' \in {"resolved", "failed"}
  /\ UNCHANGED <<environment, now, pc, wanted, requestId, sent, inbox, discarded, result>>

Resolved ==
  /\ pc = "resolve" /\ InTime /\ resolver = "resolved"
  /\ pc' = "connect"
  /\ UNCHANGED <<environment, now, resolver, wanted, requestId, sent, inbox, discarded, result>>

\* create_datagram_endpoint
Connected ==
  /\ pc = "connect" /\ InTime
  /\ pc' = "ask"
  /\ UNCHANGED <<environment, now, resolver, wanted, requestId, sent, inbox, discarded, result>>

\* No address, no socket, or neither in time.
NotReached ==
  /\ \/ pc = "resolve" /\ (resolver = "failed" \/ ~InTime)
     \/ pc = "connect"
  /\ End("unreachable", {})
  /\ UNCHANGED <<environment, now, resolver, wanted, requestId, sent, discarded>>

-----------------------------------------------------------------------------
\* _converse

SendRequest ==
  /\ \E id \in Ids :
       /\ requestId' = id
       /\ sent' = sent \cup {Request(id, wanted)}
  /\ discarded' = FALSE
  /\ pc' = "listen"
  /\ UNCHANGED <<environment, now, resolver, wanted, inbox, result>>

\* Mutated form: it asks even when no value is left.
AskForNothing == pc = "ask" /\ SendRequest

Ask == pc = "ask" /\ wanted # <<>> /\ SendRequest

\* Every value was one the agent lacks.
NothingLeft ==
  /\ pc = "ask" /\ wanted = <<>>
  /\ End("answered", {})
  /\ UNCHANGED <<environment, now, resolver, wanted, requestId, sent, discarded>>

\* _listen: the next arrival, in the order of the queue.
Taken == Head(inbox)
Listening == pc = "listen" /\ InTime /\ inbox # <<>>
\* Mutated form: the request id is not compared.
IsAnyReply(arrival) == arrival.kind = "message"
IsReply(arrival) == arrival.kind = "message" /\ arrival.id = requestId

\* Mutated form: every datagram set aside starts the wait afresh.
SetAsideRestartsWait ==
  /\ Listening
  /\ Taken.kind \in {"malformed", "message"} /\ ~IsReply(Taken)
  /\ discarded' = TRUE /\ inbox' = Tail(inbox) /\ now' = 0
  /\ UNCHANGED <<environment, resolver, pc, wanted, requestId, sent, result>>

SetAside ==
  /\ Listening
  /\ Taken.kind \in {"malformed", "message"} /\ ~IsReply(Taken)
  /\ discarded' = TRUE /\ inbox' = Tail(inbox)
  /\ UNCHANGED <<environment, now, resolver, pc, wanted, requestId, sent, result>>

\* _unanswered
HearError ==
  /\ Listening /\ Taken \in SocketErrors
  /\ End(IF Taken.kind = "portUnreachable" THEN "refused" ELSE "unreachable", {})
  /\ UNCHANGED <<environment, now, resolver, wanted, requestId, sent, discarded>>

Expire ==
  /\ pc = "listen" /\ ~InTime
  /\ End(IF discarded THEN "error" ELSE "silent", {})
  /\ UNCHANGED <<environment, now, resolver, wanted, requestId, sent, discarded>>

\* _unknown_in_v1
NamesUnknown(m) ==
  /\ version = "v1" /\ m.status = "noSuchName" /\ m.pdu = "response"
  /\ m.index \in 1..Len(wanted)

AskAgain ==
  /\ Listening /\ IsReply(Taken) /\ NamesUnknown(Taken)
  /\ wanted' = RemoveAt(wanted, Taken.index)
  /\ pc' = "ask" /\ inbox' = Tail(inbox)
  /\ UNCHANGED <<environment, now, resolver, requestId, sent, discarded, result>>

\* _check and _body: what makes a reply to our request no usable answer.
Usable(m) ==
  /\ m.pdu = "response" /\ m.version = version /\ m.status = "none"
  /\ [i \in DOMAIN m.bindings |-> m.bindings[i].name] = wanted
  /\ \A i \in DOMAIN m.bindings :
       m.bindings[i].element \in {"value"} \cup (IF version = "v2c" THEN {"exception"} ELSE {})

\* _answered
Answered ==
  /\ Listening /\ IsReply(Taken) /\ ~NamesUnknown(Taken)
  /\ IF Usable(Taken)
       THEN End("answered", {b.name : b \in {c \in ToSet(Taken.bindings) : c.element = "value"}})
       ELSE End("error", {})
  /\ UNCHANGED <<environment, now, resolver, wanted, requestId, sent, discarded>>

\* read_snmp_system: asyncio.run waits for the lookup's thread before it returns.
Return ==
  /\ pc = "done" /\ resolver # "running"
  /\ pc' = "returned"
  /\ UNCHANGED <<environment, now, resolver, wanted, requestId, sent, inbox, discarded, result>>

ReaderStep ==
  \/ Resolved \/ Connected \/ NotReached
  \/ Ask \/ NothingLeft \/ SetAside \/ HearError \/ Expire \/ AskAgain \/ Answered
  \/ Return

Next == ReaderStep \/ Arrive \/ LookupReturns \/ Tick

\* The event loop serves the read and its timer; the network and the lookup owe
\* nothing.
Spec == Init /\ [][Next]_vars /\ WF_vars(ReaderStep) /\ WF_vars(Tick)

-----------------------------------------------------------------------------
\* Type correctness of the read's own state.
TypeOK ==
  /\ version \in Versions /\ lacks \subseteq Values
  /\ now \in 0..Timeout /\ resolver \in {"running", "resolved", "failed"}
  /\ pc \in {"resolve", "connect", "ask", "listen", "done", "returned"}
  /\ wanted \in Seq(Values) /\ IsInjective(wanted)
  /\ requestId \in Ids \cup {Stray}
  /\ \A r \in sent : r.id \in Ids /\ r.wanted \in Seq(Values) /\ r.wanted # <<>>
  /\ Len(inbox) <= MaxQueue /\ discarded \in BOOLEAN
  /\ result.state \in States \cup {"none"} /\ result.present \subseteq Values

\* The chance that two rounds of one read draw the same id is 2^-31.
IdsDiffer == \A r, s \in sent : r.id = s.id => r = s

\* A read that answers (_answered) reports exactly the values the agent has:
\* a late or doubled noSuchName, whose index counts in an earlier request's
\* list, never costs a value, and none appears that was not asked for.
ReportsWhatTheAgentHas ==
  IdsDiffer /\ result.state = "answered" => result.present = Values \ lacks

\* One deadline ends the read whatever keeps arriving, be it another read's
\* answers without end, and whatever the name lookup does (_listen, within).
ReadEnds == <>(pc \in {"done", "returned"})
=============================================================================
