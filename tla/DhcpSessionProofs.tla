------------------------- MODULE DhcpSessionProofs -------------------------
(***************************************************************************)
(* Theorems about DhcpSession, for any addresses, callers and iterators,   *)
(* any window, settle time and join timeout, and any capture.              *)
(*                                                                         *)
(* What is over must be related to who may still act: as long as stop()    *)
(* has not given up on the reader, `finished' means that the reader is     *)
(* dead (ReaderInv), because a thread that closes the capture, or calls    *)
(* stop() again, has joined it (OwnerInv).                                 *)
(***************************************************************************)
EXTENDS DhcpSession, TLAPS

Gone == reader = "dead" \/ gaveUp

\* The reading thread: its exception is on its way until it is kept.
ReaderInv ==
  /\ died => reader = "failing" \/ failure
  /\ finished => Gone

\* The thread of the `with' block.
OwnerInv ==
  /\ ~Entered => reader = "absent" /\ stops = 0
  /\ owner \in {"closing", "finishing"} => Gone
  /\ owner = "inside" /\ stops > 0 => Gone
  /\ owner = "joining" => stops > 0
  /\ capture = "closed" => owner = "refused" \/ Gone
  /\ owner = "outside" => capture = "none"
  /\ owner = "refused" => capture # "open"

\* The iterators and the callers that saw the session over.
StreamInv ==
  \A i \in Streams :
    /\ yielded[i] <= Len(found)
    /\ stream[i] \in {"drained", "ended"} /\ ~gaveUp => yielded[i] = Len(found)
    /\ stream[i] \in {"drained", "ended", "raised"} => finished

AnswerInv == \A c \in Callers : cause[c] = "finished" => finished

IInv == TypeOK /\ AsleepUntilItMatters /\ ReaderInv /\ OwnerInv /\ StreamInv /\ AnswerInv

-----------------------------------------------------------------------------
\* A session that was not entered satisfies the invariant.
LEMMA InitIInv == Init => IInv
<1>. SUFFICES ASSUME Init PROVE IInv
  OBVIOUS
<1>1. CaptureOK
  <2>1. now \in 0..Horizon
    BY SessionAssumption DEF Init
  <2>2. died \in BOOLEAN
    BY DEF Init
  <2>. QED BY <2>1, <2>2 DEF Init, CaptureOK
<1>6. SessionOK
  <2>1. finished \in BOOLEAN /\ stopping \in BOOLEAN /\ failure \in BOOLEAN
    BY DEF Init
  <2>. QED BY <2>1 DEF Init, SessionOK
<1>5. ThreadsOK
  <2>1. caller \in [Callers -> {"idle", "look", "asleep", "record", "report"}]
        /\ wakeAt \in [Callers -> Nat] /\ calls \in [Callers -> Nat]
    BY DEF Init
  <2>2. cause \in [Callers -> {"none", "quiet", "finished"}]
        /\ answer \in [Callers -> Seq(Addresses) \cup {Unasked, Raised}]
    BY DEF Init
  <2>3. stream \in [Streams -> {"idle", "open", "drained", "ended", "raised"}]
        /\ yielded \in [Streams -> Nat]
    BY DEF Init
  <2>. QED BY <2>1, <2>2, <2>3 DEF Init, ThreadsOK
<1>2. AsleepUntilItMatters /\ AnswerInv
  BY DEF Init, AsleepUntilItMatters, AnswerInv
<1>3. ReaderInv /\ OwnerInv
  BY DEF Init, ReaderInv, OwnerInv, Entered
<1>4. StreamInv
  BY DEF Init, StreamInv
<1>. QED BY <1>1, <1>2, <1>3, <1>4, <1>5, <1>6 DEF IInv, TypeOK

\* The clock moves.
LEMMA TickInv ==
  ASSUME IInv, Tick
  PROVE  IInv'
<1>. USE DEF IInv, TypeOK, Tick, capturing, record, flags, asking, streaming, owning
<1>1. TypeOK'
  BY SessionAssumption DEF CaptureOK, SessionOK, ThreadsOK
<1>2. AsleepUntilItMatters' /\ AnswerInv'
  BY DEF AsleepUntilItMatters, AnswerInv, NextChange
<1>3. ReaderInv' /\ OwnerInv'
  BY DEF ReaderInv, OwnerInv, Gone, Entered
<1>4. StreamInv'
  BY DEF StreamInv
<1>. QED BY <1>1, <1>2, <1>3, <1>4

\* The session is entered, or is not.
LEMMA EnterInv ==
  ASSUME IInv, OpenCapture \/ StartReader \/ ThreadRefused
  PROVE  IInv'
<1>. USE DEF IInv, TypeOK, OpenCapture, StartReader, ThreadRefused,
             record, flags, asking, streaming
<1>1. TypeOK'
  BY DEF CaptureOK, SessionOK, ThreadsOK
<1>2. AsleepUntilItMatters' /\ AnswerInv'
  BY DEF AsleepUntilItMatters, AnswerInv, NextChange
<1>3. ReaderInv' /\ OwnerInv'
  BY DEF ReaderInv, OwnerInv, Gone, Entered, CaptureOK, ThreadsOK
<1>4. StreamInv'
  BY DEF StreamInv
<1>. QED BY <1>1, <1>2, <1>3, <1>4

\* The reader's steps up to the moment it has something to say.
LEMMA ReadInv ==
  ASSUME IInv, ReaderAsks \/ ReaderStops \/ Receive \/ CarryFailure
  PROVE  IInv'
<1>. USE DEF IInv, TypeOK, ReaderAsks, ReaderStops, Receive, ReceiveFrame, ReceiveNothing,
             ReceiveRaises, CarryFailure, record, flags, asking, streaming, owning
<1>1. TypeOK'
  <2>1. hand' \in Addresses \cup {NoOffer} /\ died' \in BOOLEAN /\ failure' \in BOOLEAN
    BY DEF CaptureOK, SessionOK
  <2>2. reader' \in {"absent", "loop", "reading", "holding", "failing", "finishing", "dead"}
    OBVIOUS
  <2>3. CaptureOK'
    BY <2>1, <2>2 DEF CaptureOK
  <2>4. SessionOK'
    BY <2>1 DEF SessionOK
  <2>5. ThreadsOK'
    BY DEF ThreadsOK
  <2>. QED BY <2>3, <2>4, <2>5
<1>2. AsleepUntilItMatters' /\ AnswerInv'
  BY DEF AsleepUntilItMatters, AnswerInv, NextChange
<1>3. ReaderInv' /\ OwnerInv'
  BY DEF ReaderInv, OwnerInv, Gone, Entered
<1>4. StreamInv'
  BY DEF StreamInv
<1>. QED BY <1>1, <1>2, <1>3, <1>4

\* Notified, nobody sleeps.
LEMMA NotifiedNobodySleeps ==
  ASSUME NotifyAll, ThreadsOK
  PROVE  /\ caller' \in [Callers -> {"idle", "look", "asleep", "record", "report"}]
         /\ wakeAt' \in [Callers -> Nat]
         /\ \A c \in Callers : caller'[c] # "asleep"
         /\ \A c \in Callers : caller'[c] \in {"idle", "report"} => caller'[c] = caller[c]
BY DEF NotifyAll, ThreadsOK

\* A frame is absorbed. The reader is alive, so no iterator has been told
\* that the session is over.
LEMMA AbsorbInv ==
  ASSUME IInv, Absorb
  PROVE  IInv'
<1>. USE DEF IInv, TypeOK, Absorb, flags, streaming, owning
<1>a. caller' \in [Callers -> {"idle", "look", "asleep", "record", "report"}]
      /\ wakeAt' \in [Callers -> Nat]
  BY NotifiedNobodySleeps DEF ThreadsOK
<1>b. found' \in Seq(Addresses) /\ Len(found') >= Len(found)
  <2>1. CASE hand \in Addresses
    <3>1. found \in Seq(Addresses)
      BY DEF SessionOK
    <3>2. Append(found, hand) \in Seq(Addresses) /\ Len(Append(found, hand)) = Len(found) + 1
      BY <2>1, <3>1
    <3>. QED BY <3>1, <3>2
  <2>2. CASE hand \notin Addresses
    BY <2>2 DEF SessionOK
  <2>. QED BY <2>1, <2>2
<1>1. TypeOK'
  <2>1. heard' \in Seq(Addresses \X Nat)
    <3>1. hand \in Addresses => <<hand, now>> \in Addresses \X Nat
      BY DEF CaptureOK
    <3>. QED BY <3>1 DEF CaptureOK
  <2>2. CaptureOK'
    BY <2>1 DEF CaptureOK
  <2>3. SessionOK'
    BY <1>b DEF SessionOK, CaptureOK
  <2>4. ThreadsOK'
    BY <1>a DEF ThreadsOK
  <2>. QED BY <2>2, <2>3, <2>4
<1>2. AsleepUntilItMatters'
  <2>1. CASE hand \in Addresses \ Offered
    BY <2>1, NotifiedNobodySleeps DEF AsleepUntilItMatters
  <2>2. CASE hand \notin Addresses \ Offered
    BY <2>2 DEF AsleepUntilItMatters, NextChange
  <2>. QED BY <2>1, <2>2
<1>3. ReaderInv' /\ OwnerInv' /\ AnswerInv'
  BY DEF ReaderInv, OwnerInv, AnswerInv, Gone, Entered
<1>4. StreamInv'
  BY <1>b DEF StreamInv, ReaderInv, Gone, ThreadsOK, SessionOK
<1>. QED BY <1>1, <1>2, <1>3, <1>4

\* The session is declared over, by the reader or by stop().
LEMMA FinishInv ==
  ASSUME IInv, ReaderFinishes \/ StopFinishes
  PROVE  IInv'
<1>. USE DEF IInv, TypeOK, ReaderFinishes, StopFinishes, capturing, record, streaming, owning
<1>1. TypeOK'
  <2>1. caller' \in [Callers -> {"idle", "look", "asleep", "record", "report"}]
        /\ wakeAt' \in [Callers -> Nat]
    BY NotifiedNobodySleeps
  <2>2. CaptureOK' /\ SessionOK'
    BY DEF CaptureOK, SessionOK
  <2>3. owner' \in {"outside", "entering", "refused", "inside", "joining", "closing", "finishing"}
    BY DEF ThreadsOK
  <2>4. ThreadsOK'
    BY <2>1, <2>3 DEF ThreadsOK
  <2>. QED BY <2>2, <2>4
<1>2. AsleepUntilItMatters' /\ AnswerInv'
  BY NotifiedNobodySleeps DEF AsleepUntilItMatters, AnswerInv
<1>3. ReaderInv' /\ OwnerInv'
  BY DEF ReaderInv, OwnerInv, Gone, Entered
<1>4. StreamInv'
  BY DEF StreamInv
<1>. QED BY <1>1, <1>2, <1>3, <1>4

\* result().
LEMMA ResultInv ==
  ASSUME IInv, NEW c \in Callers, Ask(c) \/ ResultStep(c)
  PROVE  IInv'
<1>. USE DEF IInv, TypeOK, capturing, record, flags, streaming, owning
<1>. USE DEF Ask, ResultStep, Look, WakeUp, Record, Report
<1>1. TypeOK'
  <2>1. NextChange \in Nat
    BY SessionAssumption DEF NextChange, SessionOK
  <2>2. CaptureOK' /\ SessionOK'
    BY DEF CaptureOK, SessionOK
  <2>3. ThreadsOK'
    <3>1. CASE Ask(c)
      BY <3>1 DEF ThreadsOK
    <3>2. CASE Look(c)
      BY <2>1, <3>2 DEF ThreadsOK
    <3>3. CASE WakeUp(c)
      BY <3>3 DEF ThreadsOK
    <3>4. CASE Record(c)
      BY <3>4 DEF ThreadsOK
    <3>5. CASE Report(c)
      BY <3>5 DEF ThreadsOK, SessionOK
    <3>. QED BY <3>1, <3>2, <3>3, <3>4, <3>5
  <2>. QED BY <2>2, <2>3
<1>2. AsleepUntilItMatters'
  BY DEF AsleepUntilItMatters, NextChange, ThreadsOK
<1>3. AnswerInv'
  BY DEF AnswerInv, ThreadsOK
<1>4. ReaderInv' /\ OwnerInv' /\ StreamInv'
  BY DEF ReaderInv, OwnerInv, StreamInv, Gone, Entered
<1>. QED BY <1>1, <1>2, <1>3, <1>4

\* offers().
LEMMA StreamsInv ==
  ASSUME IInv, NEW i \in Streams, OpenStream(i) \/ StreamStep(i)
  PROVE  IInv'
<1>. USE DEF IInv, TypeOK, capturing, record, flags, asking, owning
<1>. USE DEF OpenStream, StreamStep, Yield, StreamDrained, EndStream
<1>1. TypeOK'
  <2>1. CaptureOK' /\ SessionOK'
    BY DEF CaptureOK, SessionOK
  <2>2. stream' \in [Streams -> {"idle", "open", "drained", "ended", "raised"}]
    BY DEF ThreadsOK
  <2>3. yielded' \in [Streams -> Nat]
    BY DEF ThreadsOK
  <2>4. ThreadsOK'
    BY <2>2, <2>3 DEF ThreadsOK
  <2>. QED BY <2>1, <2>4
<1>2. AsleepUntilItMatters' /\ AnswerInv'
  BY DEF AsleepUntilItMatters, AnswerInv, NextChange
<1>3. ReaderInv' /\ OwnerInv'
  BY DEF ReaderInv, OwnerInv, Gone, Entered
<1>4. StreamInv'
  <2>1. Len(found) \in Nat
    BY DEF SessionOK
  <2>2. CASE OpenStream(i)
    BY <2>2 DEF StreamInv, ThreadsOK
  <2>3. CASE Yield(i)
    BY <2>1, <2>3 DEF StreamInv, ThreadsOK
  <2>4. CASE StreamDrained(i)
    BY <2>1, <2>4 DEF StreamInv, ThreadsOK
  <2>5. CASE EndStream(i)
    BY <2>5 DEF StreamInv, ThreadsOK
  <2>. QED BY <2>2, <2>3, <2>4, <2>5
<1>. QED BY <1>1, <1>2, <1>3, <1>4

\* stop(), up to the point where it declares the session over.
LEMMA StopInv ==
  ASSUME IInv, Stop \/ Joined \/ GiveUp \/ CloseCapture
  PROVE  IInv'
<1>. USE DEF IInv, TypeOK, Stop, Joined, GiveUp, CloseCapture,
             capturing, record, flags, asking, streaming
<1>1. TypeOK'
  <2>1. CaptureOK' /\ SessionOK'
    BY DEF CaptureOK, SessionOK
  <2>2. joinUntil' \in Nat /\ stops' \in Nat
    BY SessionAssumption DEF CaptureOK, ThreadsOK
  <2>5. gaveUp' \in BOOLEAN
    BY DEF ThreadsOK
  <2>3. owner' \in {"outside", "entering", "refused", "inside", "joining", "closing", "finishing"}
    OBVIOUS
  <2>4. ThreadsOK'
    BY <2>2, <2>3, <2>5 DEF ThreadsOK
  <2>. QED BY <2>1, <2>4
<1>2. AsleepUntilItMatters' /\ AnswerInv'
  BY DEF AsleepUntilItMatters, AnswerInv, NextChange
<1>3. ReaderInv' /\ OwnerInv'
  BY DEF ReaderInv, OwnerInv, Gone, Entered, ThreadsOK
<1>4. StreamInv'
  BY DEF StreamInv
<1>. QED BY <1>1, <1>2, <1>3, <1>4

\* Every step preserves the invariant.
LEMMA NextIInv == IInv /\ [Next]_vars => IInv'
<1>. SUFFICES ASSUME IInv, [Next]_vars PROVE IInv'
  OBVIOUS
<1>1. CASE UNCHANGED vars
  BY <1>1 DEF vars, IInv, TypeOK, CaptureOK, SessionOK, ThreadsOK, AsleepUntilItMatters,
     NextChange, ReaderInv, OwnerInv, StreamInv, AnswerInv, Gone, Entered
<1>2. CASE Next
  BY <1>2, TickInv, EnterInv, ReadInv, AbsorbInv, FinishInv, ResultInv, StreamsInv, StopInv
     DEF Next, ReaderStep, StopStep
<1>. QED BY <1>1, <1>2

\* The inductive invariant holds throughout: the basis of the theorems below.
THEOREM Invariance == Spec => []IInv
<1>. QED BY InitIInv, NextIInv, PTL DEF Spec

\* TypeOK: only addresses offered to this machine are ever recorded or
\* answered, whatever the capture delivers.
THEOREM TypeCorrect == Spec => []TypeOK
<1>1. IInv => TypeOK
  BY DEF IInv
<1>. QED BY <1>1, Invariance, PTL

\* AsleepUntilItMatters: no caller of result() sleeps past the next moment
\* its answer could change, or through a notification.
THEOREM NobodyOversleeps == Spec => []AsleepUntilItMatters
<1>1. IInv => AsleepUntilItMatters
  BY DEF IInv
<1>. QED BY <1>1, Invariance, PTL

\* StreamIsWhole: an iterator over offers() that ends has yielded everything.
THEOREM StreamsAreWhole == Spec => []StreamIsWhole
<1>1. IInv => StreamIsWhole
  BY DEF IInv, StreamInv, StreamIsWhole
<1>. QED BY <1>1, Invariance, PTL

\* CaptureIsOwned: the capture is neither closed under its reader nor kept
\* open by a session that could not be entered.
THEOREM CapturesAreOwned == Spec => []CaptureIsOwned
<1>1. IInv => CaptureIsOwned
  BY DEF IInv, OwnerInv, CaptureIsOwned, Gone, Entered
<1>. QED BY <1>1, Invariance, PTL

\* FailureIsHeard: a capture that died is never mistaken for a window that
\* closed.
THEOREM FailuresAreHeard == Spec => FailureIsHeard
<1>1. IInv => (finished => (died => failure) \/ gaveUp)
  BY DEF IInv, ReaderInv, Gone
<1>2. ASSUME IInv, [Next]_vars, NEW i \in Streams,
             stream[i] = "drained", stream'[i] = "ended"
      PROVE  ~failure /\ finished
  <2>1. finished
    BY <1>2 DEF IInv, StreamInv
  <2>2. EndStream(i)
    BY <1>2 DEF vars, Next, Tick, OpenCapture, StartReader, ThreadRefused, Receive, ReceiveFrame,
       ReceiveNothing, ReceiveRaises, ReaderStep, ReaderAsks, ReaderStops, Absorb, CarryFailure,
       ReaderFinishes, Ask, ResultStep, Look, WakeUp, Record, Report, OpenStream, StreamStep,
       Yield, StreamDrained, EndStream, Stop, StopStep, Joined, GiveUp, CloseCapture,
       StopFinishes, streaming, IInv, TypeOK, ThreadsOK
  <2>. QED BY <1>2, <2>1, <2>2 DEF EndStream, IInv, TypeOK, ThreadsOK
<1>3. ASSUME IInv, [Next]_vars, NEW c \in Callers,
             caller[c] = "report", caller'[c] = "idle", answer'[c] # Raised
      PROVE  ~failure
  <2>1. Report(c)
    BY <1>3, NotifiedNobodySleeps DEF vars, Next, Tick, OpenCapture, StartReader, ThreadRefused,
       Receive, ReceiveFrame, ReceiveNothing, ReceiveRaises, ReaderStep, ReaderAsks, ReaderStops,
       Absorb, CarryFailure, ReaderFinishes, Ask, ResultStep, Look, WakeUp, Record, Report,
       OpenStream, StreamStep, Yield, StreamDrained, EndStream, Stop, StopStep, Joined, GiveUp,
       CloseCapture, StopFinishes, asking, IInv, TypeOK, ThreadsOK
  <2>. QED BY <1>3, <2>1 DEF Report, IInv, TypeOK, ThreadsOK
<1>4. IInv /\ [Next]_vars =>
        [/\ \A i \in Streams :
              stream[i] = "drained" /\ stream'[i] = "ended" => ~died \/ gaveUp
         /\ \A c \in Callers :
              caller[c] = "report" /\ caller'[c] = "idle" /\ cause[c] = "finished" /\ answer'[c] # Raised
                => ~died \/ gaveUp]_vars
  BY <1>1, <1>2, <1>3 DEF IInv, AnswerInv
<1>. QED BY <1>4, Invariance, PTL DEF Spec, FailureIsHeard

-----------------------------------------------------------------------------
(***************************************************************************)
(* The record.  HeardInv says RecordsFirstSightings without the CHOOSE,    *)
(* and adds that every recorded address has a first hearing.               *)
(***************************************************************************)
FirstIn(s, a, i) ==
  /\ i \in DOMAIN s /\ s[i][1] = a
  /\ \A j \in 1..(i - 1) : s[j][1] # a

HeardInv ==
  /\ \A n \in DOMAIN found : \E i \in DOMAIN heard : FirstIn(heard, found[n], i)
  /\ \A i \in DOMAIN heard : heard[i][1] \in Offered
  /\ \A m, n \in DOMAIN found : \A i, j \in DOMAIN heard :
       m < n /\ FirstIn(heard, found[m], i) /\ FirstIn(heard, found[n], j) => i < j
  /\ found = <<>> => lastSeen = Unseen
  /\ found # <<>> => \A i \in DOMAIN heard :
       FirstIn(heard, found[Len(found)], i) => lastSeen = heard[i][2]

\* What was first heard stays so: later frames change nothing about it.
LEMMA FirstInExtends ==
  ASSUME NEW S, NEW s \in Seq(S), NEW x \in S, NEW a,
         NEW k \in DOMAIN s, s[k][1] = a, NEW i
  PROVE  FirstIn(Append(s, x), a, i) <=> FirstIn(s, a, i)
<1>1. /\ Len(s) \in Nat /\ DOMAIN s = 1..Len(s) /\ DOMAIN Append(s, x) = 1..(Len(s) + 1)
      /\ \A j \in DOMAIN s : Append(s, x)[j] = s[j]
  OBVIOUS
<1>2. CASE i \in DOMAIN s
  <2>1. \A j \in 1..(i - 1) : j \in DOMAIN s
    BY <1>1, <1>2
  <2>. QED BY <1>1, <1>2, <2>1 DEF FirstIn
<1>3. CASE i = Len(s) + 1
  <2>1. k \in 1..(i - 1) /\ Append(s, x)[k][1] = a
    BY <1>1, <1>3
  <2>. QED BY <1>1, <1>3, <2>1 DEF FirstIn
<1>. QED BY <1>1, <1>2, <1>3 DEF FirstIn

\* What was never heard is first heard now.
LEMMA FirstInAppended ==
  ASSUME NEW S, NEW s \in Seq(S), NEW x \in S,
         \A k \in DOMAIN s : s[k][1] # x[1], NEW i
  PROVE  FirstIn(Append(s, x), x[1], i) <=> i = Len(s) + 1
<1>1. /\ Len(s) \in Nat /\ DOMAIN s = 1..Len(s) /\ DOMAIN Append(s, x) = 1..(Len(s) + 1)
      /\ Append(s, x)[Len(s) + 1] = x
      /\ \A j \in DOMAIN s : Append(s, x)[j] = s[j]
  OBVIOUS
<1>. QED BY <1>1 DEF FirstIn

\* An address is first heard once.
LEMMA FirstHeardIs ==
  ASSUME TypeOK, NEW a, NEW i \in DOMAIN heard, FirstIn(heard, a, i)
  PROVE  FirstHeard(a) = i
<1>1. DOMAIN heard = 1..Len(heard) /\ Len(heard) \in Nat
  BY DEF TypeOK, CaptureOK
<1>2. ASSUME NEW j \in DOMAIN heard, FirstIn(heard, a, j) PROVE j = i
  <2>1. ~(j < i) /\ ~(i < j)
    BY <1>1, <1>2 DEF FirstIn
  <2>. QED BY <1>1, <2>1
<1>3. FirstHeard(a) = CHOOSE j \in DOMAIN heard : FirstIn(heard, a, j)
  BY DEF FirstHeard, FirstIn
<1>. QED BY <1>2, <1>3

\* Absorbing a frame extends the record as it extends what was heard.
LEMMA AbsorbHeard ==
  ASSUME TypeOK, HeardInv, Absorb
  PROVE  HeardInv'
<1>1. DOMAIN heard = 1..Len(heard) /\ Len(heard) \in Nat /\ heard \in Seq(Addresses \X Nat)
  BY DEF TypeOK, CaptureOK
<1>2. DOMAIN found = 1..Len(found) /\ Len(found) \in Nat /\ found \in Seq(Addresses)
  BY DEF TypeOK, SessionOK
<1>3. CASE hand \notin Addresses
  <2>1. UNCHANGED <<found, lastSeen, heard>>
    BY <1>3 DEF Absorb
  <2>. QED BY <2>1 DEF HeardInv, Offered
<1>4. CASE hand \in Addresses
  <2>0. <<hand, now>> \in Addresses \X Nat
    BY <1>4 DEF TypeOK, CaptureOK
  <2>1. /\ heard' = Append(heard, <<hand, now>>)
        /\ DOMAIN heard' = 1..(Len(heard) + 1) /\ heard'[Len(heard) + 1] = <<hand, now>>
        /\ \A i \in DOMAIN heard : heard'[i] = heard[i]
    BY <1>1, <1>4, <2>0 DEF Absorb
  <2>2. ASSUME NEW n \in DOMAIN found, NEW i
        PROVE  FirstIn(heard', found[n], i) <=> FirstIn(heard, found[n], i)
    <3>1. PICK k \in DOMAIN heard : FirstIn(heard, found[n], k)
      BY DEF HeardInv
    <3>2. heard[k][1] = found[n]
      BY <3>1 DEF FirstIn
    <3>. QED BY <1>1, <2>0, <2>1, <3>2, FirstInExtends
  <2>3. \A n \in DOMAIN found : \E i \in DOMAIN heard' : FirstIn(heard', found[n], i)
    <3>. SUFFICES ASSUME NEW n \in DOMAIN found
                  PROVE  \E i \in DOMAIN heard' : FirstIn(heard', found[n], i)
      OBVIOUS
    <3>1. PICK i \in DOMAIN heard : FirstIn(heard, found[n], i)
      BY DEF HeardInv
    <3>2. FirstIn(heard', found[n], i)
      BY <2>2, <3>1
    <3>3. i \in DOMAIN heard'
      BY <1>1, <2>1
    <3>. QED BY <3>2, <3>3
  <2>4. CASE hand \in Offered
    <3>1. found' = found /\ lastSeen' = lastSeen
      BY <2>4 DEF Absorb
    <3>2. \A n \in DOMAIN found : \E i \in DOMAIN heard' : FirstIn(heard', found[n], i)
      BY <2>3
    <3>3. \A i \in DOMAIN heard' : heard'[i][1] \in Offered
      BY <1>1, <2>1, <2>4 DEF HeardInv
    <3>4. \A n \in DOMAIN found : \A i : FirstIn(heard', found[n], i) => i \in DOMAIN heard
      BY <2>2 DEF FirstIn
    <3>5. \A m, n \in DOMAIN found : \A i, j \in DOMAIN heard' :
            m < n /\ FirstIn(heard', found[m], i) /\ FirstIn(heard', found[n], j) => i < j
      BY <2>2, <3>4 DEF HeardInv
    <3>6. found # <<>> => \A i \in DOMAIN heard' :
            FirstIn(heard', found[Len(found)], i) => lastSeen = heard'[i][2]
      <4>1. found # <<>> => Len(found) \in DOMAIN found
        BY <1>2
      <4>. QED BY <2>1, <2>2, <3>4, <4>1 DEF HeardInv
    <3>. QED BY <3>1, <3>2, <3>3, <3>5, <3>6 DEF HeardInv, Offered
  <2>5. CASE hand \notin Offered
    <3>1. /\ found' = Append(found, hand) /\ lastSeen' = now
          /\ DOMAIN found' = 1..(Len(found) + 1) /\ found'[Len(found) + 1] = hand
          /\ \A n \in DOMAIN found : found'[n] = found[n]
          /\ Len(found') = Len(found) + 1
      BY <1>2, <1>4, <2>5 DEF Absorb
    <3>2. \A i : FirstIn(heard', hand, i) <=> i = Len(heard) + 1
      <4>1. \A k \in DOMAIN heard : heard[k][1] # hand
        BY <2>5 DEF HeardInv
      <4>2. \A i : FirstIn(Append(heard, <<hand, now>>), <<hand, now>>[1], i) <=> i = Len(heard) + 1
        BY <1>1, <2>0, <4>1, FirstInAppended
      <4>. QED BY <2>1, <4>2
    <3>3. \A n \in DOMAIN found' : \E i \in DOMAIN heard' : FirstIn(heard', found'[n], i)
      <4>. SUFFICES ASSUME NEW n \in DOMAIN found'
                    PROVE  \E i \in DOMAIN heard' : FirstIn(heard', found'[n], i)
        OBVIOUS
      <4>1. CASE n \in DOMAIN found
        BY <2>3, <3>1, <4>1
      <4>2. CASE n = Len(found) + 1
        <5>1. FirstIn(heard', found'[n], Len(heard) + 1)
          BY <3>1, <3>2, <4>2
        <5>. QED BY <1>1, <2>1, <5>1
      <4>. QED BY <1>2, <3>1, <4>1, <4>2
    <3>4. \A i \in DOMAIN heard' : heard'[i][1] \in Offered'
      <4>1. Offered \cup {hand} \subseteq Offered'
        BY <1>2, <3>1 DEF Offered
      <4>. QED BY <1>1, <2>1, <4>1 DEF HeardInv
    <3>5. \A n \in DOMAIN found : \A i : FirstIn(heard', found'[n], i) =>
            i \in DOMAIN heard /\ FirstIn(heard, found[n], i)
      BY <2>2, <3>1 DEF FirstIn
    <3>6. \A m, n \in DOMAIN found' : \A i, j \in DOMAIN heard' :
            m < n /\ FirstIn(heard', found'[m], i) /\ FirstIn(heard', found'[n], j) => i < j
      <4>. SUFFICES ASSUME NEW m \in DOMAIN found', NEW n \in DOMAIN found', m < n,
                           NEW i, FirstIn(heard', found'[m], i),
                           NEW j, FirstIn(heard', found'[n], j)
                    PROVE  i < j
        OBVIOUS
      <4>1. m \in DOMAIN found /\ i \in DOMAIN heard /\ FirstIn(heard, found[m], i)
        BY <1>2, <3>1, <3>5
      <4>2. CASE n \in DOMAIN found
        BY <3>5, <4>1, <4>2 DEF HeardInv
      <4>3. CASE n = Len(found) + 1
        BY <1>1, <3>1, <3>2, <4>1, <4>3
      <4>. QED BY <1>2, <3>1, <4>2, <4>3
    <3>7. \A i \in DOMAIN heard' :
            FirstIn(heard', found'[Len(found')], i) => lastSeen' = heard'[i][2]
      BY <2>1, <3>1, <3>2
    <3>8. found' # <<>>
      BY <1>2, <3>1
    <3>. QED BY <3>3, <3>4, <3>6, <3>7, <3>8 DEF HeardInv
  <2>. QED BY <2>4, <2>5
<1>. QED BY <1>3, <1>4

\* Nothing else touches the record.
LEMMA NextHeard == TypeOK /\ HeardInv /\ [Next]_vars => HeardInv'
<1>. SUFFICES ASSUME TypeOK, HeardInv, [Next]_vars PROVE HeardInv'
  OBVIOUS
<1>1. CASE UNCHANGED <<found, lastSeen, heard>>
  BY <1>1 DEF HeardInv, Offered
<1>2. Absorb \/ UNCHANGED <<found, lastSeen, heard>>
  BY DEF vars, Next, Tick, OpenCapture, StartReader, ThreadRefused, Receive, ReceiveFrame,
     ReceiveNothing, ReceiveRaises, ReaderStep, ReaderAsks, ReaderStops, CarryFailure,
     ReaderFinishes, Ask, ResultStep, Look, WakeUp, Record, Report, OpenStream, StreamStep,
     Yield, StreamDrained, EndStream, Stop, StopStep, Joined, GiveUp, CloseCapture,
     StopFinishes, capturing, record
<1>. QED BY <1>1, <1>2, AbsorbHeard

\* RecordsFirstSightings: the record is what the frames say, in the order
\* first heard, and the quiet period counts from the newest address.
THEOREM RecordIsFirstSightings == Spec => []RecordsFirstSightings
<1>1. Init => HeardInv
  BY DEF Init, HeardInv
<1>2. TypeOK /\ HeardInv => RecordsFirstSightings
  <2>. SUFFICES ASSUME TypeOK, HeardInv PROVE RecordsFirstSightings
    OBVIOUS
  <2>1. \A n \in DOMAIN found :
          FirstHeard(found[n]) \in DOMAIN heard /\ FirstIn(heard, found[n], FirstHeard(found[n]))
    BY FirstHeardIs DEF HeardInv
  <2>2. Offered = {heard[i][1] : i \in DOMAIN heard}
    BY <2>1 DEF HeardInv, Offered, FirstIn
  <2>3. found # <<>> => Len(found) \in DOMAIN found
    BY DEF TypeOK, SessionOK
  <2>. QED BY <2>1, <2>2, <2>3 DEF HeardInv, RecordsFirstSightings
<1>. QED BY <1>1, <1>2, NextHeard, TypeCorrect, PTL DEF Spec
=============================================================================
