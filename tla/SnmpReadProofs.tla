---------------------------- MODULE SnmpReadProofs ----------------------------
(***************************************************************************)
(* Proofs about SnmpRead: whatever arrives, in whatever order, and however *)
(* often the reader asks again, it never gives up a value the agent has.   *)
(***************************************************************************)
EXTENDS SnmpRead, SequenceTheorems, TLAPS

Ended == pc \in {"done", "returned"}

\* Only what the network can hold is queued; what the reader listens for was
\* asked; and there is no result before the end.
QueueInv ==
  /\ inbox \in Seq(Arrivals)
  /\ pc = "listen" => Request(requestId, wanted) \in sent
  /\ Ended \/ result = NoResult

\* A value is given up only when the agent lacks it.
WantedInv == Values \ lacks \subseteq Range(wanted)

IInv == TypeOK /\ QueueInv /\ (IdsDiffer => WantedInv) /\ ReportsWhatTheAgentHas

\* The values a message brings.
Brought(m) == {b.name : b \in {c \in ToSet(m.bindings) : c.element = "value"}}

-----------------------------------------------------------------------------
\* One element of a sequence is taken out, and the others stay in order.
LEMMA RemoveAtProperties ==
  ASSUME NEW S, NEW s \in Seq(S), NEW i \in 1..Len(s)
  PROVE  /\ RemoveAt(s, i) \in Seq(S)
         /\ Len(RemoveAt(s, i)) = Len(s) - 1
         /\ \A j \in 1..(Len(s) - 1) : RemoveAt(s, i)[j] = IF j < i THEN s[j] ELSE s[j + 1]
  <1> DEFINE before == SubSeq(s, 1, i - 1)
             after == SubSeq(s, i + 1, Len(s))
  <1>1. before \in Seq(S) /\ Len(before) = i - 1 /\ \A j \in 1..(i - 1) : before[j] = s[j]
    OBVIOUS
  <1>2. /\ after \in Seq(S) /\ Len(after) = Len(s) - i
        /\ \A j \in 1..(Len(s) - i) : after[j] = s[i + j]
    OBVIOUS
  <1>3. RemoveAt(s, i) = before \o after
    BY DEF RemoveAt
  <1> HIDE DEF before, after
  <1>4. before \o after \in Seq(S) /\ Len(before \o after) = Len(s) - 1
    BY <1>1, <1>2
  <1>5. ASSUME NEW j \in 1..(Len(s) - 1)
        PROVE  (before \o after)[j] = IF j < i THEN s[j] ELSE s[j + 1]
    <2>1. CASE j < i
      BY <1>1, <1>2, <2>1
    <2>2. CASE j >= i
      <3>1. (before \o after)[j] = after[j - (i - 1)]
        BY <1>1, <1>2, <2>2
      <3>2. after[j - (i - 1)] = s[j + 1]
        BY <1>2, <2>2
      <3> QED
        BY <3>1, <3>2, <2>2
    <2>3. j < i \/ j >= i
      OBVIOUS
    <2> QED
      BY <2>1, <2>2, <2>3
  <1> QED
    BY <1>3, <1>4, <1>5

\* Removing from a list without repetitions loses that element and no other.
LEMMA RemoveAtLosesOne ==
  ASSUME NEW S, NEW s \in Seq(S), IsInjective(s), NEW i \in 1..Len(s)
  PROVE  /\ IsInjective(RemoveAt(s, i))
         /\ Range(s) \ {s[i]} \subseteq Range(RemoveAt(s, i))
  <1> DEFINE r == RemoveAt(s, i)
  <1>1. /\ r \in Seq(S) /\ DOMAIN r = 1..(Len(s) - 1) /\ DOMAIN s = 1..Len(s)
        /\ \A j \in 1..(Len(s) - 1) : r[j] = IF j < i THEN s[j] ELSE s[j + 1]
    BY RemoveAtProperties
  <1> HIDE DEF r
  <1>2. IsInjective(r)
    <2> DEFINE from(j) == IF j < i THEN j ELSE j + 1
    <2>1. \A j \in DOMAIN r : from(j) \in DOMAIN s /\ r[j] = s[from(j)]
      BY <1>1
    <2>2. \A j, k \in DOMAIN r : from(j) = from(k) => j = k
      BY <1>1
    <2> QED
      BY <2>1, <2>2 DEF IsInjective
  <1>3. ASSUME NEW j \in DOMAIN s, j # i
        PROVE  \E k \in DOMAIN r : r[k] = s[j]
    <2>1. CASE j < i
      BY <1>1, <2>1
    <2>2. CASE j > i
      <3>1. j - 1 \in 1..(Len(s) - 1) /\ ~(j - 1 < i)
        BY <1>1, <2>2
      <3>2. r[j - 1] = s[j]
        BY <1>1, <3>1
      <3> QED
        BY <1>1, <3>1, <3>2
    <2> QED
      BY <1>1, <1>3, <2>1, <2>2
  <1>4. Range(s) \ {s[i]} \subseteq Range(r)
    BY <1>3 DEF Range
  <1> QED
    BY <1>2, <1>4 DEF r

-----------------------------------------------------------------------------
\* What could arrive still can once more has been asked.
LEMMA ArrivalsGrow ==
  ASSUME sent \subseteq sent', UNCHANGED environment
  PROVE  Arrivals \subseteq Arrivals'
  <1>1. \A r : Answers(r)' = Answers(r)
    BY DEF environment, Answers, TrueAnswer, FaultyAnswer, WellFormed
  <1> SUFFICES ASSUME NEW a \in Arrivals PROVE a \in Arrivals'
    OBVIOUS
  <1>2. CASE \E r \in sent : a \in Answers(r)
    <2>1. PICK r \in sent : a \in Answers(r)
      BY <1>2
    <2>2. r \in sent' /\ a \in Answers(r)'
      BY <1>1, <2>1
    <2> QED
      BY <2>2 DEF Arrivals
  <1>3. CASE a \in SocketErrors \cup {Malformed, Message(Stray, "response", version, "none", 0, <<>>)}
    BY <1>3 DEF Arrivals, environment, SocketErrors, Malformed, Message
  <1> QED
    BY <1>2, <1>3 DEF Arrivals

\* The ids of the earlier requests differed when those of all of them do.
LEMMA IdsDifferedBefore ==
  ASSUME sent \subseteq sent', IdsDiffer'
  PROVE  IdsDiffer
  BY DEF IdsDiffer

\* What an agent that breaks the protocol can send, one kind at a time.
AllValues == [v \in Values |-> "value"]
IsFaulty(r, m) ==
  /\ m.id = r.id
  /\ \/ m.status # "none"
        /\ (m.status = "noSuchName" /\ m.pdu = "response" => m.index \in {0, Len(r.wanted) + 1})
     \/ m.status = "none" /\ (m.pdu # "response" \/ m.version = "other")
     \/ m.status = "none" /\ m.bindings = Bound(Tail(r.wanted), AllValues)
     \/ /\ m.status = "none"
        /\ \E w \in ToSet(r.wanted), e \in {"badOctets", "otherType"} :
             m.bindings = Bound(r.wanted, [AllValues EXCEPT ![w] = e])

\* A faulty answer carries the identifier of its round, and breaks the protocol otherwise.
LEMMA FaultyAnswers ==
  ASSUME NEW r, NEW m \in FaultyAnswer(r)
  PROVE  IsFaulty(r, m)
  <1> DEFINE Refusing == {Message(r.id, "response", version, "genErr", 1, <<>>),
                          Message(r.id, "response", version, "noSuchName", 0, <<>>),
                          Message(r.id, "response", version, "noSuchName", Len(r.wanted) + 1, <<>>),
                          Message(r.id, "report", version, "noSuchName", 1, <<>>)}
             Odd == {Message(r.id, "report", version, "none", 0, Bound(r.wanted, AllValues)),
                     Message(r.id, "response", "other", "none", 0, Bound(r.wanted, AllValues)),
                     Message(r.id, "response", version, "none", 0, Bound(Tail(r.wanted), AllValues))}
             Spoilt(e) == {Message(r.id, "response", version, "none", 0,
                                   Bound(r.wanted, [AllValues EXCEPT ![w] = e])) : w \in ToSet(r.wanted)}
  <1>1. m \in Refusing \/ m \in Odd \/ \E e \in {"badOctets", "otherType"} : m \in Spoilt(e)
    BY Zenon DEF FaultyAnswer, AllValues
  <1>2. CASE m \in Refusing
    BY <1>2 DEF Message, IsFaulty
  <1>3. CASE m \in Odd
    BY <1>3 DEF Message, IsFaulty
  <1>4. CASE \E e \in {"badOctets", "otherType"} : m \in Spoilt(e)
    <2>1. PICK e \in {"badOctets", "otherType"}, w \in ToSet(r.wanted) :
            m = Message(r.id, "response", version, "none", 0, Bound(r.wanted, [AllValues EXCEPT ![w] = e]))
      BY <1>4
    <2>2. /\ m.id = r.id /\ m.status = "none"
          /\ m.bindings = Bound(r.wanted, [AllValues EXCEPT ![w] = e])
      BY <2>1 DEF Message
    <2> QED
      BY <2>2 DEF IsFaulty
  <1> QED
    BY <1>1, <1>2, <1>3, <1>4

\* An answer carries the id of what it answers.
LEMMA AnswersNameTheirRequest ==
  ASSUME NEW r, NEW m \in Answers(r)
  PROVE  m.id = r.id
  <1>1. CASE m \in TrueAnswer(r)
    BY <1>1 DEF TrueAnswer, Message
  <1>2. CASE m \in FaultyAnswer(r)
    BY <1>2, FaultyAnswers DEF IsFaulty
  <1> QED
    BY <1>1, <1>2 DEF Answers

\* While no two requests share an id, a message under the id of this round
\* answers the request of this round.
LEMMA ReplyAnswersThisRequest ==
  ASSUME TypeOK, IdsDiffer, Request(requestId, wanted) \in sent,
         NEW m \in Arrivals, IsReply(m)
  PROVE  m \in Answers(Request(requestId, wanted))
  <1>1. m.kind = "message" /\ m.id = requestId
    BY DEF IsReply
  <1>2. requestId # Stray
    BY SnmpAssumption DEF TypeOK, Request
  <1>3. PICK r \in sent : m \in Answers(r)
    <2>1. m \notin SocketErrors /\ m # Malformed
      BY <1>1 DEF SocketErrors, Malformed
    <2>2. m # Message(Stray, "response", version, "none", 0, <<>>)
      BY <1>1, <1>2 DEF Message
    <2> QED
      BY <2>1, <2>2 DEF Arrivals
  <1>4. m.id = r.id
    BY <1>3, AnswersNameTheirRequest
  <1>5. r = Request(requestId, wanted)
    BY <1>1, <1>4 DEF IdsDiffer, Request
  <1> QED
    BY <1>3, <1>5

\* An answer that names a value unknown names one the agent lacks.
LEMMA UnknownIsLacked ==
  ASSUME NEW m \in Answers(Request(requestId, wanted)), NamesUnknown(m), wanted \in Seq(Values)
  PROVE  wanted[m.index] \in lacks
  <1> DEFINE r == Request(requestId, wanted)
  <1>1. r.wanted = wanted
    BY DEF Request
  <1>2. m \in TrueAnswer(r) \/ m \in FaultyAnswer(r)
    BY DEF Answers
  <1> HIDE DEF r
  <1>3. CASE m \in TrueAnswer(r)
    BY <1>1, <1>3 DEF TrueAnswer, NamesUnknown, Message
  <1>4. CASE m \in FaultyAnswer(r)
    <2>1. m.status # "noSuchName" \/ m.pdu # "response" \/ m.index \in {0, Len(wanted) + 1}
      BY <1>1, <1>4, FaultyAnswers DEF IsFaulty
    <2> QED
      BY <2>1 DEF NamesUnknown
  <1> QED
    BY <1>2, <1>3, <1>4

\* The values a usable message brings are among those asked for.
LEMMA UsableBringsWanted ==
  ASSUME NEW m, Usable(m), wanted \in Seq(Values)
  PROVE  Brought(m) \subseteq Values
  <1>1. \A i \in DOMAIN m.bindings : i \in DOMAIN wanted /\ m.bindings[i].name = wanted[i]
    BY DEF Usable
  <1> QED
    BY <1>1 DEF Brought, ToSet

\* A usable answer to this request brings exactly the values the agent has.
LEMMA UsableIsTrue ==
  ASSUME NEW m \in Answers(Request(requestId, wanted)), Usable(m),
         version \in Versions, wanted \in Seq(Values), wanted # <<>>
  PROVE  Brought(m) = Range(wanted) \ lacks
  <1> DEFINE r == Request(requestId, wanted)
             held == [v \in Values |-> IF v \in lacks THEN "exception" ELSE "value"]
  <1>1. r.wanted = wanted
    BY DEF Request
  <1>2. m \in TrueAnswer(r) \/ m \in FaultyAnswer(r)
    BY DEF Answers
  <1>3. /\ m.pdu = "response" /\ m.version = version /\ m.status = "none"
        /\ DOMAIN m.bindings = DOMAIN wanted
        /\ \A i \in DOMAIN m.bindings : m.bindings[i].element \in {"value", "exception"}
    BY DEF Usable
  <1> HIDE DEF r
  <1>4. CASE m \in TrueAnswer(r)
    <2>1. m.bindings = Bound(wanted, held)
      BY <1>1, <1>3, <1>4 DEF TrueAnswer, Message
    <2>2. \A i \in DOMAIN wanted :
            /\ wanted[i] \in Values
            /\ m.bindings[i].name = wanted[i]
            /\ m.bindings[i].element = IF wanted[i] \in lacks THEN "exception" ELSE "value"
      BY <2>1 DEF Bound
    <2> QED
      BY <1>3, <2>2 DEF Brought, ToSet, Range
  <1>5. CASE m \in FaultyAnswer(r)
    <2>1. m.bindings # Bound(Tail(wanted), AllValues)
      BY <1>3 DEF Bound
    <2>2. ASSUME NEW w \in ToSet(wanted), NEW e \in {"badOctets", "otherType"}
          PROVE  m.bindings # Bound(wanted, [AllValues EXCEPT ![w] = e])
      <3>1. PICK i \in DOMAIN wanted : w = wanted[i] /\ w \in Values
        BY DEF ToSet
      <3>2. Bound(wanted, [AllValues EXCEPT ![w] = e])[i].element = e
        BY <3>1 DEF Bound, AllValues
      <3> QED
        BY <1>3, <3>1, <3>2
    <2> QED
      <3>1. IsFaulty(r, m)
        BY <1>5, FaultyAnswers
      <3>2. m.version # "other"
        BY <1>3 DEF Versions
      <3> QED
        BY <1>1, <1>3, <2>1, <2>2, <3>1, <3>2 DEF IsFaulty
  <1> QED
    BY <1>2, <1>4, <1>5

-----------------------------------------------------------------------------
\* A read begins with nothing queued and every value wanted.
LEMMA InitInvariant == Init => IInv
  <1> SUFFICES ASSUME Init PROVE IInv
    OBVIOUS
  <1>1. TypeOK
    <2>1. now \in 0..Timeout /\ Len(inbox) <= MaxQueue
      BY SnmpAssumption DEF Init
    <2>2. /\ wanted \in Seq(Values) /\ IsInjective(wanted) /\ sent = {}
          /\ result.state = "none" /\ result.present = {}
      BY SnmpAssumption DEF Init, NoResult
    <2> QED
      BY <2>1, <2>2 DEF Init, TypeOK
  <1>2. QueueInv
    BY DEF Init, QueueInv
  <1>3. WantedInv
    BY DEF Init, WantedInv, Values
  <1>4. ReportsWhatTheAgentHas
    BY DEF Init, ReportsWhatTheAgentHas, NoResult
  <1> QED
    BY <1>1, <1>2, <1>3, <1>4 DEF IInv

\* Time passes, the lookup returns, the socket is there: nothing is asked or heard.
LEMMA QuietStep ==
  ASSUME IInv, Tick \/ LookupReturns \/ Resolved \/ Connected \/ Return
  PROVE  IInv'
  <1>1. /\ UNCHANGED <<environment, wanted, requestId, sent, inbox, discarded, result>>
        /\ now' \in 0..Timeout /\ resolver' \in {"running", "resolved", "failed"}
        /\ pc' \in {"resolve", "connect", "ask", "listen", "done", "returned"}
        /\ pc' = "listen" => pc = "listen"
        /\ Ended => Ended'
    BY SnmpAssumption DEF Tick, LookupReturns, Resolved, Connected, Return, environment, Ended, IInv, TypeOK
  <1>2. TypeOK'
    BY <1>1 DEF IInv, TypeOK, environment
  <1>3. Arrivals \subseteq Arrivals'
    BY <1>1, ArrivalsGrow
  <1>4. QueueInv'
    BY <1>1, <1>3, SeqMonotonic DEF IInv, QueueInv
  <1>5. (IdsDiffer => WantedInv)' /\ ReportsWhatTheAgentHas'
    BY <1>1 DEF IInv, IdsDiffer, WantedInv, ReportsWhatTheAgentHas, environment
  <1> QED
    BY <1>2, <1>4, <1>5 DEF IInv

\* What arrives is queued, and is the agent's or faulty.
LEMMA ArriveStep ==
  ASSUME IInv, Arrive
  PROVE  IInv'
  <1>1. PICK arrival \in Arrivals : inbox' = Append(inbox, arrival)
    BY DEF Arrive
  <1>2. /\ UNCHANGED <<environment, now, resolver, pc, wanted, requestId, sent, discarded, result>>
        /\ Len(inbox) < MaxQueue
    BY DEF Arrive
  <1>3. inbox' \in Seq(Arrivals) /\ Len(inbox') = Len(inbox) + 1
    BY <1>1 DEF IInv, QueueInv
  <1>4. TypeOK'
    BY <1>2, <1>3, SnmpAssumption DEF IInv, TypeOK, environment, QueueInv
  <1>5. Arrivals \subseteq Arrivals'
    BY <1>2, ArrivalsGrow
  <1>6. QueueInv'
    BY <1>2, <1>3, <1>5, SeqMonotonic DEF IInv, QueueInv, Ended
  <1>7. (IdsDiffer => WantedInv)' /\ ReportsWhatTheAgentHas'
    BY <1>2 DEF IInv, IdsDiffer, WantedInv, ReportsWhatTheAgentHas, environment
  <1> QED
    BY <1>4, <1>6, <1>7 DEF IInv

\* The read ends: a result that is not an answer says nothing of the agent, and
\* one that is was shown to hold.
LEMMA EndStep ==
  ASSUME IInv, NEW state \in States, NEW present \in SUBSET Values, End(state, present),
         UNCHANGED <<environment, now, resolver, wanted, requestId, sent, discarded>>,
         IdsDiffer /\ state = "answered" => present = Values \ lacks
  PROVE  IInv'
  <1>1. pc' = "done" /\ result' = [state |-> state, present |-> present] /\ inbox' = <<>>
    BY DEF End
  <1>2. TypeOK'
    BY <1>1, SnmpAssumption DEF IInv, TypeOK, environment
  <1>3. QueueInv'
    BY <1>1 DEF QueueInv, Ended
  <1>4. (IdsDiffer => WantedInv)' /\ ReportsWhatTheAgentHas'
    BY <1>1 DEF IInv, IdsDiffer, WantedInv, ReportsWhatTheAgentHas, environment
  <1> QED
    BY <1>2, <1>3, <1>4 DEF IInv

\* A read that ends without an answer reports nothing.
LEMMA UnansweredStep ==
  ASSUME IInv, NotReached \/ HearError \/ Expire
  PROVE  IInv'
  <1>1. \E state \in States \ {"answered"} : End(state, {})
    BY DEF NotReached, HearError, Expire, States
  <1>2. UNCHANGED <<environment, now, resolver, wanted, requestId, sent, discarded>>
    BY DEF NotReached, HearError, Expire
  <1> QED
    BY <1>1, <1>2, EndStep

\* A read whose values the agent all lacks reports none.
LEMMA NothingLeftStep ==
  ASSUME IInv, NothingLeft
  PROVE  IInv'
  <1>1. IdsDiffer => {} = Values \ lacks
    BY DEF NothingLeft, IInv, WantedInv, Range
  <1>2. /\ End("answered", {})
        /\ UNCHANGED <<environment, now, resolver, wanted, requestId, sent, discarded>>
    BY DEF NothingLeft
  <1> QED
    BY <1>1, <1>2, EndStep DEF States

\* A round asks for what is still wanted, under a new identifier.
LEMMA AskStep ==
  ASSUME IInv, Ask
  PROVE  IInv'
  <1>1. PICK id \in Ids : requestId' = id /\ sent' = sent \cup {Request(id, wanted)}
    BY DEF Ask, SendRequest
  <1>2. /\ discarded' = FALSE /\ pc' = "listen" /\ pc = "ask" /\ wanted # <<>>
        /\ UNCHANGED <<environment, now, resolver, wanted, inbox, result>>
    BY DEF Ask, SendRequest
  <1>3. TypeOK'
    <2>1. \A r \in sent' : r.id \in Ids /\ r.wanted \in Seq(Values) /\ r.wanted # <<>>
      BY <1>1, <1>2 DEF IInv, TypeOK, Request
    <2> QED
      BY <1>1, <1>2, <2>1 DEF IInv, TypeOK, environment
  <1>4. Arrivals \subseteq Arrivals'
    BY <1>1, <1>2, ArrivalsGrow
  <1>5. QueueInv'
    <2>1. inbox' \in Seq(Arrivals')
      BY <1>2, <1>4, SeqMonotonic DEF IInv, QueueInv
    <2>2. Request(requestId', wanted') \in sent'
      BY <1>1, <1>2
    <2>3. result' = NoResult
      BY <1>2 DEF IInv, QueueInv, Ended
    <2> QED
      BY <2>1, <2>2, <2>3 DEF QueueInv
  <1>6. IdsDiffer' => IdsDiffer
    BY <1>1, IdsDifferedBefore
  <1>7. (IdsDiffer => WantedInv)' /\ ReportsWhatTheAgentHas'
    BY <1>2, <1>6 DEF IInv, WantedInv, ReportsWhatTheAgentHas, environment
  <1> QED
    BY <1>3, <1>5, <1>7 DEF IInv

\* The first arrival is taken off the queue.
LEMMA TakenOff ==
  ASSUME QueueInv, Listening
  PROVE  /\ Taken \in Arrivals /\ Tail(inbox) \in Seq(Arrivals) /\ Len(Tail(inbox)) = Len(inbox) - 1
         /\ Request(requestId, wanted) \in sent /\ result = NoResult
  BY DEF QueueInv, Listening, Taken, Ended

\* A datagram that answers another round, or none, is set aside.
LEMMA SetAsideStep ==
  ASSUME IInv, SetAside
  PROVE  IInv'
  <1>1. /\ Listening /\ discarded' = TRUE /\ inbox' = Tail(inbox)
        /\ UNCHANGED <<environment, now, resolver, pc, wanted, requestId, sent, result>>
    BY DEF SetAside
  <1>2. inbox' \in Seq(Arrivals) /\ Len(inbox') = Len(inbox) - 1 /\ Len(inbox) \in Nat
    BY <1>1, TakenOff DEF IInv, QueueInv
  <1>3. TypeOK'
    BY <1>1, <1>2, SnmpAssumption DEF IInv, TypeOK, environment
  <1>4. Arrivals \subseteq Arrivals'
    BY <1>1, ArrivalsGrow
  <1>5. QueueInv'
    BY <1>1, <1>2, <1>4, SeqMonotonic DEF IInv, QueueInv, Ended
  <1>6. (IdsDiffer => WantedInv)' /\ ReportsWhatTheAgentHas'
    BY <1>1 DEF IInv, IdsDiffer, WantedInv, ReportsWhatTheAgentHas, environment
  <1> QED
    BY <1>3, <1>5, <1>6 DEF IInv

\* The value given up is the one the agent named, and that in this round's list.
LEMMA AskAgainStep ==
  ASSUME IInv, AskAgain
  PROVE  IInv'
  <1>1. /\ Listening /\ IsReply(Taken) /\ NamesUnknown(Taken)
        /\ wanted' = RemoveAt(wanted, Taken.index) /\ pc' = "ask" /\ inbox' = Tail(inbox)
        /\ UNCHANGED <<environment, now, resolver, requestId, sent, discarded, result>>
    BY DEF AskAgain
  <1>2. /\ Taken \in Arrivals /\ inbox' \in Seq(Arrivals)
        /\ Len(inbox') = Len(inbox) - 1 /\ Len(inbox) \in Nat
        /\ Request(requestId, wanted) \in sent /\ result = NoResult
    BY <1>1, TakenOff DEF IInv, QueueInv
  <1>3. Taken.index \in 1..Len(wanted) /\ wanted \in Seq(Values) /\ IsInjective(wanted)
    BY <1>1 DEF NamesUnknown, IInv, TypeOK
  <1>4. wanted' \in Seq(Values) /\ IsInjective(wanted')
    BY <1>1, <1>3, RemoveAtProperties, RemoveAtLosesOne
  <1>5. Range(wanted) \ {wanted[Taken.index]} \subseteq Range(wanted')
    BY <1>1, <1>3, RemoveAtLosesOne
  <1>6. TypeOK'
    BY <1>1, <1>2, <1>4, SnmpAssumption DEF IInv, TypeOK, environment
  <1>7. Arrivals \subseteq Arrivals'
    BY <1>1, ArrivalsGrow
  <1>8. QueueInv'
    BY <1>1, <1>2, <1>7, SeqMonotonic DEF QueueInv
  <1>9. IdsDiffer => WantedInv'
    <2> SUFFICES ASSUME IdsDiffer PROVE WantedInv'
      OBVIOUS
    <2>1. Taken \in Answers(Request(requestId, wanted))
      BY <1>1, <1>2, ReplyAnswersThisRequest DEF IInv
    <2>2. wanted[Taken.index] \in lacks
      BY <1>1, <1>3, <2>1, UnknownIsLacked
    <2> QED
      BY <1>1, <1>5, <2>2 DEF IInv, WantedInv, environment
  <1>10. (IdsDiffer => WantedInv)' /\ ReportsWhatTheAgentHas'
    BY <1>1, <1>2, <1>9 DEF IdsDiffer, ReportsWhatTheAgentHas, NoResult
  <1> QED
    BY <1>6, <1>8, <1>10 DEF IInv

\* A reply ends the read: what it reports is what the agent has.
LEMMA AnsweredStep ==
  ASSUME IInv, Answered
  PROVE  IInv'
  <1>1. /\ Listening /\ IsReply(Taken)
        /\ UNCHANGED <<environment, now, resolver, wanted, requestId, sent, discarded>>
        /\ IF Usable(Taken) THEN End("answered", Brought(Taken)) ELSE End("error", {})
    BY DEF Answered, Brought
  <1>2. Taken \in Arrivals /\ Request(requestId, wanted) \in sent
    BY <1>1, TakenOff DEF IInv
  <1>3. version \in Versions /\ wanted \in Seq(Values) /\ wanted # <<>>
    BY <1>2 DEF IInv, TypeOK, Request
  <1>4. CASE ~Usable(Taken)
    BY <1>1, <1>4, EndStep DEF States
  <1>5. CASE Usable(Taken)
    <2>1. Brought(Taken) \subseteq Values
      BY <1>3, <1>5, UsableBringsWanted
    <2>2. ASSUME IdsDiffer PROVE Brought(Taken) = Values \ lacks
      <3>1. Taken \in Answers(Request(requestId, wanted))
        BY <1>1, <1>2, <2>2, ReplyAnswersThisRequest DEF IInv
      <3>2. Brought(Taken) = Range(wanted) \ lacks
        BY <1>3, <1>5, <3>1, UsableIsTrue
      <3>3. Range(wanted) \subseteq Values
        BY <1>3 DEF Range
      <3> QED
        BY <2>2, <3>2, <3>3 DEF IInv, WantedInv
    <2> QED
      BY <1>1, <1>5, <2>1, <2>2, EndStep DEF States
  <1> QED
    BY <1>4, <1>5

\* Every step of a read keeps the invariant.
LEMMA NextInvariant == IInv /\ [Next]_vars => IInv'
  <1> SUFFICES ASSUME IInv, [Next]_vars PROVE IInv'
    OBVIOUS
  <1>1. CASE ReaderStep
    BY <1>1, QuietStep, UnansweredStep, NothingLeftStep, AskStep, SetAsideStep, AskAgainStep,
       AnsweredStep DEF ReaderStep
  <1>2. CASE Arrive \/ LookupReturns \/ Tick
    BY <1>2, ArriveStep, QuietStep
  <1>3. CASE UNCHANGED vars
    <2>1. UNCHANGED <<environment, now, resolver, pc, wanted, requestId, sent, inbox, discarded, result>>
      BY <1>3 DEF vars, environment
    <2>2. Arrivals \subseteq Arrivals'
      BY <2>1, ArrivalsGrow
    <2>3. QueueInv'
      BY <2>1, <2>2, SeqMonotonic DEF IInv, QueueInv, Ended
    <2>4. TypeOK'
      BY <2>1 DEF IInv, TypeOK, environment
    <2> QED
      BY <2>1, <2>3, <2>4 DEF IInv, IdsDiffer, WantedInv, ReportsWhatTheAgentHas, environment
  <1> QED
    BY <1>1, <1>2, <1>3 DEF Next

\* The inductive invariant holds in every reachable state.
THEOREM Invariance == Spec => []IInv
  BY InitInvariant, NextInvariant, PTL DEF Spec

\* The state of a read keeps its types (snmp.py, _converse).
THEOREM TypeCorrect == Spec => []TypeOK
  BY Invariance, PTL DEF IInv

\* For any system group, any number of rounds and anything that arrives in any
\* order, a read that answers reports exactly what the agent has, unless two of
\* its rounds drew the same id (_listen, _unknown_in_v1, _answered).
THEOREM AnswersAreTrue == Spec => []ReportsWhatTheAgentHas
  BY Invariance, PTL DEF IInv

=============================================================================
