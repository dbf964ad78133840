----------------------------- MODULE DhcpSession -----------------------------
(***************************************************************************)
(* DhcpSession (src/ipscout/dhcp.py): a thread reads a capture for a       *)
(* bounded window and records the addresses it sees offered, while other   *)
(* threads wait in result(), iterate offers(), or leave the block, which   *)
(* stops the reader and releases the capture.                              *)
(*                                                                         *)
(* What runs under the session's condition variable is one step; every     *)
(* other access to the shared fields is a step of its own.  Time is        *)
(* counted from the moment the session was entered.                        *)
(***************************************************************************)
EXTENDS Naturals, Sequences

CONSTANTS
  Addresses,     \* what the frames for this machine offer
  NoOffer,       \* any other frame
  Callers,       \* threads calling result()
  Streams,       \* iterators over offers()
  Window,        \* `timeout'
  SettleTime,    \* `settle'
  JoinTimeout,   \* _JOIN_TIMEOUT
  Horizon,       \* bound: the clock stops here
  MaxOffers,     \* bound: offers to this machine the capture delivers
  MaxCalls,      \* bound: result() calls of one thread
  MaxStops,      \* bound: stop() calls
  Unseen,        \* _last_seen is None
  Unasked,       \* no answer yet (_recorded is None)
  Raised         \* the answer was an IPScoutError

ASSUME SessionAssumption ==
  /\ Window \in Nat \ {0} /\ SettleTime \in Nat /\ JoinTimeout \in Nat
  /\ Horizon \in Nat /\ Window <= Horizon
  /\ MaxOffers \in Nat /\ MaxCalls \in Nat /\ MaxStops \in Nat
  /\ NoOffer \notin Addresses
  /\ Unseen \notin Nat
  /\ Unasked \notin Seq(Addresses) /\ Raised \notin Seq(Addresses) /\ Unasked # Raised

VARIABLES
  now,
  \* the capture and the thread that reads it
  capture,    \* "none", "open" or "closed"
  reader,     \* where _read_until_done is
  hand,       \* the frame receive() returned
  died,       \* receive() has raised
  heard,      \* history: <<offer, time>> of every offer to this machine
  \* the fields of the session
  found,      \* _found
  lastSeen,   \* _last_seen
  finished, stopping,
  failure,    \* _failure is set
  recorded,   \* _recorded
  \* result(): where each caller is, until when it sleeps, what ended its wait
  caller, wakeAt, cause, calls, answer,
  \* offers(): where each iterator is, and how many addresses it has yielded
  stream, yielded,
  \* the thread that runs the `with' block
  owner, joinUntil, gaveUp, stops

capturing == <<capture, reader, hand, died, heard>>
record    == <<found, lastSeen>>
flags     == <<finished, stopping, failure>>
asking    == <<caller, wakeAt, cause, calls, answer, recorded>>
streaming == <<stream, yielded>>
owning    == <<owner, joinUntil, gaveUp, stops>>
vars == <<now, capture, reader, hand, died, heard, found, lastSeen,
          finished, stopping, failure, recorded,
          caller, wakeAt, cause, calls, answer, stream, yielded,
          owner, joinUntil, gaveUp, stops>>

Init ==
  /\ now = 0
  /\ capture = "none" /\ reader = "absent" /\ hand = NoOffer
  /\ died = FALSE /\ heard = <<>>
  /\ found = <<>> /\ lastSeen = Unseen
  /\ finished = FALSE /\ stopping = FALSE /\ failure = FALSE /\ recorded = Unasked
  /\ caller = [c \in Callers |-> "idle"] /\ wakeAt = [c \in Callers |-> 0]
  /\ cause = [c \in Callers |-> "none"] /\ calls = [c \in Callers |-> 0]
  /\ answer = [c \in Callers |-> Unasked]
  /\ stream = [i \in Streams |-> "idle"] /\ yielded = [i \in Streams |-> 0]
  /\ owner = "outside" /\ joinUntil = 0 /\ gaveUp = FALSE /\ stops = 0

Entered == owner \notin {"outside", "entering", "refused"}

\* Nothing happens before the session is entered, so the clock starts there.
Tick ==
  /\ Entered /\ now < Horizon
  /\ now' = now + 1
  /\ UNCHANGED <<capturing, record, flags, asking, streaming, owning>>

\* notify_all: everybody asleep in result() looks again.
NotifyAll ==
  /\ caller' = [c \in Callers |-> IF caller[c] = "asleep" THEN "look" ELSE caller[c]]
  /\ wakeAt' = [c \in Callers |-> 0]

-----------------------------------------------------------------------------
\* __enter__

OpenCapture ==
  /\ owner = "outside"
  /\ \/ owner' = "entering" /\ capture' = "open"
     \/ owner' = "refused" /\ UNCHANGED capture     \* no privilege, no interface
  /\ UNCHANGED <<now, reader, hand, died, heard, record, flags, asking, streaming,
                 joinUntil, gaveUp, stops>>

StartReader ==
  /\ owner = "entering"
  /\ owner' = "inside" /\ reader' = "loop"
  /\ UNCHANGED <<now, capture, hand, died, heard, record, flags, asking, streaming,
                 joinUntil, gaveUp, stops>>

\* The thread cannot be started: no __exit__ will follow, so close here.
ThreadRefused ==
  /\ owner = "entering"
  /\ owner' = "refused" /\ capture' = "closed"
  /\ UNCHANGED <<now, reader, hand, died, heard, record, flags, asking, streaming,
                 joinUntil, gaveUp, stops>>

-----------------------------------------------------------------------------
\* _read_until_done

ReaderAsks ==
  /\ reader = "loop" /\ ~stopping /\ now < Window
  /\ reader' = "reading"
  /\ UNCHANGED <<now, capture, hand, died, heard, record, flags, asking, streaming, owning>>

ReaderStops ==
  /\ reader = "loop" /\ (stopping \/ now >= Window)
  /\ reader' = "finishing"
  /\ UNCHANGED <<now, capture, hand, died, heard, record, flags, asking, streaming, owning>>

ReceiveFrame ==
  /\ reader = "reading" /\ capture = "open"
  /\ \E frame \in Addresses \cup {NoOffer} :
       (frame \in Addresses => Len(heard) < MaxOffers) /\ hand' = frame
  /\ reader' = "holding"
  /\ UNCHANGED <<now, capture, died, heard, record, flags, asking, streaming, owning>>

\* The read timed out, or the capture was closed underneath it.
ReceiveNothing ==
  /\ reader = "reading"
  /\ reader' = "loop"
  /\ UNCHANGED <<now, capture, hand, died, heard, record, flags, asking, streaming, owning>>

\* receive() raises: the interface went away, or the socket was closed before
\* its timeout was set.
ReceiveRaises ==
  /\ reader = "reading"
  /\ reader' = "failing" /\ died' = TRUE
  /\ UNCHANGED <<now, capture, hand, heard, record, flags, asking, streaming, owning>>

Offered == {found[i] : i \in DOMAIN found}

\* Mutant of Absorb: replies to other machines are not told apart.
AbsorbAnyFrame ==
  /\ reader = "holding"
  /\ heard' = Append(heard, <<hand, now>>)
  /\ IF hand \notin Offered
     THEN found' = Append(found, hand) /\ lastSeen' = now /\ NotifyAll
     ELSE UNCHANGED <<found, lastSeen, caller, wakeAt>>
  /\ reader' = "loop" /\ hand' = NoOffer
  /\ UNCHANGED <<now, capture, died, flags, cause, calls, answer, recorded,
                 streaming, owning>>

\* Mutant of Absorb: a retransmission restarts the quiet window.
AbsorbRestartsClock ==
  /\ reader = "holding"
  /\ heard' = IF hand \in Addresses THEN Append(heard, <<hand, now>>) ELSE heard
  /\ IF hand \in Addresses
     THEN /\ found' = IF hand \in Offered THEN found ELSE Append(found, hand)
          /\ lastSeen' = now
          /\ NotifyAll
     ELSE UNCHANGED <<found, lastSeen, caller, wakeAt>>
  /\ reader' = "loop" /\ hand' = NoOffer
  /\ UNCHANGED <<now, capture, died, flags, cause, calls, answer, recorded,
                 streaming, owning>>

\* Mutant of Absorb: the waiters are left asleep.
AbsorbInSilence ==
  /\ reader = "holding"
  /\ heard' = IF hand \in Addresses THEN Append(heard, <<hand, now>>) ELSE heard
  /\ IF hand \in Addresses \ Offered
     THEN found' = Append(found, hand) /\ lastSeen' = now
     ELSE UNCHANGED <<found, lastSeen>>
  /\ reader' = "loop" /\ hand' = NoOffer
  /\ UNCHANGED <<now, capture, died, flags, asking, streaming, owning>>

\* _absorb: only a new address is recorded, and only it restarts the clock.
Absorb ==
  /\ reader = "holding"
  /\ heard' = IF hand \in Addresses THEN Append(heard, <<hand, now>>) ELSE heard
  /\ IF hand \in Addresses \ Offered
     THEN found' = Append(found, hand) /\ lastSeen' = now /\ NotifyAll
     ELSE UNCHANGED <<found, lastSeen, caller, wakeAt>>
  /\ reader' = "loop" /\ hand' = NoOffer
  /\ UNCHANGED <<now, capture, died, flags, cause, calls, answer, recorded,
                 streaming, owning>>

\* Mutant of CarryFailure: the exception ends the thread and is lost.
DropFailure ==
  /\ reader = "failing"
  /\ reader' = "finishing"
  /\ UNCHANGED <<now, capture, hand, died, heard, record, flags, asking, streaming, owning>>

\* The exception is kept for whoever asks next ...
CarryFailure ==
  /\ reader = "failing"
  /\ failure' = TRUE /\ reader' = "finishing"
  /\ UNCHANGED <<now, capture, hand, died, heard, record, finished, stopping,
                 asking, streaming, owning>>

\* ... before the waiters are told that the reading is over.
ReaderFinishes ==
  /\ reader = "finishing"
  /\ finished' = TRUE /\ NotifyAll
  /\ reader' = "dead"
  /\ UNCHANGED <<now, capture, hand, died, heard, record, stopping, failure,
                 cause, calls, answer, recorded, streaming, owning>>

-----------------------------------------------------------------------------
\* result()

\* The next moment _wait_for_quiet's answer could change.
NextChange ==
  IF lastSeen = Unseen \/ lastSeen + SettleTime > Window THEN Window ELSE lastSeen + SettleTime

\* Mutant of Quiet: the whole window is not an end by itself.
QuietOnlyWhenSettled == lastSeen # Unseen /\ now >= lastSeen + SettleTime

\* _the_exchange_has_gone_quiet
Quiet ==
  \/ now >= Window
  \/ lastSeen # Unseen /\ now >= lastSeen + SettleTime

Ask(c) ==
  /\ Entered /\ caller[c] = "idle" /\ calls[c] < MaxCalls
  /\ calls' = [calls EXCEPT ![c] = @ + 1]
  /\ caller' = [caller EXCEPT ![c] = IF recorded = Unasked THEN "look" ELSE "report"]
  /\ UNCHANGED <<now, capturing, record, flags, wakeAt, cause, answer, recorded, streaming, owning>>

\* One turn of _wait_for_quiet's loop.
Look(c) ==
  /\ caller[c] = "look"
  /\ \/ /\ finished
        /\ caller' = [caller EXCEPT ![c] = "record"]
        /\ cause' = [cause EXCEPT ![c] = "finished"] /\ UNCHANGED wakeAt
     \/ /\ ~finished /\ Quiet
        /\ caller' = [caller EXCEPT ![c] = "record"]
        /\ cause' = [cause EXCEPT ![c] = "quiet"] /\ UNCHANGED wakeAt
     \/ /\ ~finished /\ ~Quiet
        /\ caller' = [caller EXCEPT ![c] = "asleep"]
        /\ wakeAt' = [wakeAt EXCEPT ![c] = NextChange] /\ UNCHANGED cause
  /\ UNCHANGED <<now, capturing, record, flags, calls, answer, recorded, streaming, owning>>

WakeUp(c) ==
  /\ caller[c] = "asleep" /\ now >= wakeAt[c]
  /\ caller' = [caller EXCEPT ![c] = "look"] /\ wakeAt' = [wakeAt EXCEPT ![c] = 0]
  /\ UNCHANGED <<now, capturing, record, flags, cause, calls, answer, recorded,
                 streaming, owning>>

\* The lock was released in between.
Record(c) ==
  /\ caller[c] = "record"
  /\ recorded' = found
  /\ caller' = [caller EXCEPT ![c] = "report"]
  /\ UNCHANGED <<now, capturing, record, flags, wakeAt, cause, calls, answer, streaming, owning>>

\* _reraise_any_failure, then the record.
Report(c) ==
  /\ caller[c] = "report"
  /\ answer' = [answer EXCEPT ![c] = IF failure THEN Raised ELSE recorded]
  /\ caller' = [caller EXCEPT ![c] = "idle"] /\ cause' = [cause EXCEPT ![c] = "none"]
  /\ UNCHANGED <<now, capturing, record, flags, wakeAt, calls, recorded, streaming, owning>>

-----------------------------------------------------------------------------
\* offers()

OpenStream(i) ==
  /\ Entered /\ stream[i] = "idle"
  /\ stream' = [stream EXCEPT ![i] = "open"]
  /\ UNCHANGED <<now, capturing, record, flags, asking, yielded, owning>>

Yield(i) ==
  /\ stream[i] = "open" /\ yielded[i] < Len(found)
  /\ yielded' = [yielded EXCEPT ![i] = @ + 1]
  /\ UNCHANGED <<now, capturing, record, flags, asking, stream, owning>>

\* Nothing left and the session is over. The wait polls, so no notification
\* is needed to see it.
StreamDrained(i) ==
  /\ stream[i] = "open" /\ yielded[i] >= Len(found) /\ finished
  /\ stream' = [stream EXCEPT ![i] = "drained"]
  /\ UNCHANGED <<now, capturing, record, flags, asking, yielded, owning>>

EndStream(i) ==
  /\ stream[i] = "drained"
  /\ stream' = [stream EXCEPT ![i] = IF failure THEN "raised" ELSE "ended"]
  /\ UNCHANGED <<now, capturing, record, flags, asking, yielded, owning>>

-----------------------------------------------------------------------------
\* stop(), which __exit__ calls too. Only the first call finds the thread.

\* Mutant of Stop: the capture is closed without waiting for the reader.
StopWithoutJoin ==
  /\ owner = "inside" /\ stops < MaxStops /\ now + JoinTimeout <= Horizon
  /\ stopping' = TRUE /\ stops' = stops + 1
  /\ owner' = "closing" /\ joinUntil' = 0
  /\ UNCHANGED <<now, capturing, record, finished, failure, asking, streaming, gaveUp>>

\* Mutant of Stop: the session is declared over before the reader is.
StopFinishesFirst ==
  /\ owner = "inside" /\ stops < MaxStops /\ now + JoinTimeout <= Horizon
  /\ stopping' = TRUE /\ stops' = stops + 1 /\ finished' = TRUE /\ NotifyAll
  /\ owner' = IF stops = 0 THEN "joining" ELSE "closing"
  /\ joinUntil' = IF stops = 0 THEN now + JoinTimeout ELSE 0
  /\ UNCHANGED <<now, capturing, record, failure, cause, calls, answer, recorded,
                 streaming, gaveUp>>

Stop ==
  /\ owner = "inside" /\ stops < MaxStops /\ now + JoinTimeout <= Horizon
  /\ stopping' = TRUE /\ stops' = stops + 1
  /\ owner' = IF stops = 0 THEN "joining" ELSE "closing"
  /\ joinUntil' = IF stops = 0 THEN now + JoinTimeout ELSE 0
  /\ UNCHANGED <<now, capturing, record, finished, failure, asking, streaming, gaveUp>>

\* Mutant of GiveUp: the join has no timeout.
NeverGiveUp ==
  /\ owner = "joining" /\ reader = "dead" /\ now >= joinUntil
  /\ owner' = "closing" /\ joinUntil' = 0
  /\ UNCHANGED <<now, capturing, record, flags, asking, streaming, gaveUp, stops>>

Joined ==
  /\ owner = "joining" /\ reader = "dead"
  /\ owner' = "closing" /\ joinUntil' = 0
  /\ UNCHANGED <<now, capturing, record, flags, asking, streaming, gaveUp, stops>>

GiveUp ==
  /\ owner = "joining" /\ reader # "dead" /\ now >= joinUntil
  /\ owner' = "closing" /\ joinUntil' = 0 /\ gaveUp' = TRUE
  /\ UNCHANGED <<now, capturing, record, flags, asking, streaming, stops>>

CloseCapture ==
  /\ owner = "closing"
  /\ owner' = "finishing" /\ capture' = "closed"
  /\ UNCHANGED <<now, reader, hand, died, heard, record, flags, asking, streaming,
                 joinUntil, gaveUp, stops>>

StopFinishes ==
  /\ owner = "finishing"
  /\ owner' = "inside" /\ finished' = TRUE /\ NotifyAll
  /\ UNCHANGED <<now, capturing, record, stopping, failure, cause, calls, answer,
                 recorded, streaming, joinUntil, gaveUp, stops>>

-----------------------------------------------------------------------------
Receive == ReceiveFrame \/ ReceiveNothing \/ ReceiveRaises

ReaderStep == ReaderAsks \/ ReaderStops \/ Absorb \/ CarryFailure \/ ReaderFinishes

ResultStep(c) == Look(c) \/ WakeUp(c) \/ Record(c) \/ Report(c)

StreamStep(i) == Yield(i) \/ StreamDrained(i) \/ EndStream(i)

StopStep == Joined \/ GiveUp \/ CloseCapture \/ StopFinishes

Next ==
  \/ Tick
  \/ OpenCapture \/ StartReader \/ ThreadRefused
  \/ Receive \/ ReaderStep
  \/ \E c \in Callers : Ask(c) \/ ResultStep(c)
  \/ \E i \in Streams : OpenStream(i) \/ StreamStep(i)
  \/ Stop \/ StopStep

\* The scheduler runs every thread that can run and the clock does not stand
\* still. Nothing is assumed of Receive: a wedged capture never returns.
Fairness ==
  /\ WF_vars(Tick) /\ WF_vars(ReaderStep) /\ WF_vars(StopStep)
  /\ \A c \in Callers : WF_vars(ResultStep(c))
  /\ \A i \in Streams : WF_vars(StreamStep(i))

Spec == Init /\ [][Next]_vars /\ Fairness

-----------------------------------------------------------------------------
CaptureOK ==
  /\ now \in 0..Horizon
  /\ capture \in {"none", "open", "closed"}
  /\ reader \in {"absent", "loop", "reading", "holding", "failing", "finishing", "dead"}
  /\ hand \in Addresses \cup {NoOffer} /\ died \in BOOLEAN
  /\ heard \in Seq(Addresses \X Nat)

SessionOK ==
  /\ found \in Seq(Addresses) /\ lastSeen \in Nat \cup {Unseen}
  /\ finished \in BOOLEAN /\ stopping \in BOOLEAN /\ failure \in BOOLEAN
  /\ recorded \in Seq(Addresses) \cup {Unasked}

ThreadsOK ==
  /\ caller \in [Callers -> {"idle", "look", "asleep", "record", "report"}]
  /\ wakeAt \in [Callers -> Nat] /\ cause \in [Callers -> {"none", "quiet", "finished"}]
  /\ calls \in [Callers -> Nat]
  /\ answer \in [Callers -> Seq(Addresses) \cup {Unasked, Raised}]
  /\ stream \in [Streams -> {"idle", "open", "drained", "ended", "raised"}]
  /\ yielded \in [Streams -> Nat]
  /\ owner \in {"outside", "entering", "refused", "inside", "joining", "closing", "finishing"}
  /\ joinUntil \in Nat /\ gaveUp \in BOOLEAN /\ stops \in Nat

\* Every variable has its type; in particular only addresses offered to this
\* machine are ever recorded.
TypeOK == CaptureOK /\ SessionOK /\ ThreadsOK

\* A caller of result() sleeps until the next moment the answer could change
\* and no longer: a new address or the end of the session, seen by another
\* thread while it slept, has always moved it on.
AsleepUntilItMatters ==
  \A c \in Callers : caller[c] = "asleep" => ~finished /\ wakeAt[c] = NextChange

\* Incremental, under the lock, from another thread, the record is still what
\* the frames say: the distinct addresses in the order first heard, and the
\* clock counts from the first hearing of the newest.
FirstHeard(a) ==
  CHOOSE i \in DOMAIN heard : heard[i][1] = a /\ \A j \in 1..(i - 1) : heard[j][1] # a

RecordsFirstSightings ==
  /\ Offered = {heard[i][1] : i \in DOMAIN heard}
  /\ \A i, j \in DOMAIN found : i < j => FirstHeard(found[i]) < FirstHeard(found[j])
  /\ lastSeen = IF found = <<>> THEN Unseen ELSE heard[FirstHeard(found[Len(found)])][2]

\* An iterator that has ended yielded everything the session ever records,
\* unless stop() gave up on a reader that would not end.
StreamIsWhole ==
  \A i \in Streams : stream[i] = "ended" /\ ~gaveUp => yielded[i] = Len(found)

\* The capture is not closed under a reader that is using it, unless stop()
\* gave up on that reader; and a session that could not be entered, which
\* nobody will leave, does not keep it open.
CaptureIsOwned ==
  /\ capture = "closed" /\ reader = "reading" => gaveUp
  /\ owner \in {"outside", "refused"} => capture # "open"

\* A capture that dies mid-window is heard of: no iterator ends as if the
\* window had closed, and no result() that was ended by the end of the
\* reading answers with the partial list.
FailureIsHeard ==
  [][/\ \A i \in Streams :
          stream[i] = "drained" /\ stream'[i] = "ended" => ~died \/ gaveUp
     /\ \A c \in Callers :
          caller[c] = "report" /\ caller'[c] = "idle" /\ cause[c] = "finished" /\ answer'[c] # Raised
            => ~died \/ gaveUp]_vars

\* result() returns, at the latest when the window closes, whatever the
\* capture and the reading thread do.
ResultReturns == \A c \in Callers : caller[c] # "idle" ~> caller[c] = "idle"

\* A wedged capture cannot hold the thread that leaves the block: stop()
\* returns, with the capture released and every iterator free to end.
StopReleases ==
  owner = "joining" ~> (owner = "inside" /\ capture = "closed" /\ finished)

-----------------------------------------------------------------------------
\* dhcp.py, DhcpSession.result: `Quiet means settle seconds with no new
\* address; each new one restarts that clock.'
RecordedWhenQuiet ==
  [][recorded' # recorded => finished \/ Quiet]_vars

\* dhcp.py, DhcpSession.result: `Calling it again returns the same answer
\* without blocking'.
RepeatsItsAnswer ==
  [][\A c \in Callers : answer[c] \notin {Unasked, Raised} => answer'[c] = answer[c]]_vars
=============================================================================
