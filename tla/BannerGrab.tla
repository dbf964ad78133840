------------------------------ MODULE BannerGrab ------------------------------
(***************************************************************************)
(* One host of a banner grab (src/ipscout/banner.py): one deadline over    *)
(* the name lookup, the connection and every read of the greeting.         *)
(*                                                                         *)
(* The peer sends when it likes, in pieces of any size, and may close or   *)
(* reset the connection.  The stream of asyncio holds what arrived until   *)
(* it is read; a reset makes the next read raise, whatever is still held.  *)
(* The hosts of one grab are worked through by GatherBounded.              *)
(***************************************************************************)
EXTENDS Naturals, Sequences, SequencesExt

CONSTANTS
  GrabTimeout,  \* settings.timeout, counted from the start of the grab
  Cap,          \* settings.max_line_bytes
  MaxBytes      \* bound: bytes the peer sends

ASSUME GrabAssumption ==
  GrabTimeout \in Nat \ {0} /\ Cap \in Nat \ {0} /\ MaxBytes \in Nat

VARIABLES
  grab,        \* the call: is there a farewell?
  grabStep,    \* where it is
  clock,       \* the loop's clock
  peer,        \* the other end: "none", "open", "closed" or "reset"
  stream,      \* every byte the peer sent
  pending,     \* those the StreamReader holds
  line,        \* received
  saidGoodbye, \* the farewell was written
  banner       \* the state answered

grabVars == <<grab, grabStep, clock, peer, stream, pending, line, saidGoodbye, banner>>

BannerStates == {"greeted", "silent", "refused", "unreachable"}
Newline == "newline"
Byte == {"text", Newline}

GrabFresh ==
  /\ clock = 0 /\ peer = "none" /\ stream = <<>> /\ pending = <<>> /\ line = <<>>
  /\ saidGoodbye = FALSE /\ banner = "none"

GrabInit ==
  /\ grab \in [op : {"grab"}, farewell : BOOLEAN] /\ grabStep = "lookup"
  /\ GrabFresh

GrabTicks ==
  /\ grabStep \notin {"idle", "done"} /\ clock < GrabTimeout
  /\ clock' = clock + 1
  /\ UNCHANGED <<grab, grabStep, peer, stream, pending, line, saidGoodbye, banner>>

\* within: nothing is begun, and nothing waited for, once the deadline is reached.
BeforeDeadline == clock < GrabTimeout

-----------------------------------------------------------------------------
\* _grab_one

NotConnected(state) == grabStep' = "done" /\ banner' = state

LookupAnswers ==
  /\ grabStep = "lookup" /\ BeforeDeadline
  /\ grabStep' = "connect"
  /\ UNCHANGED <<grab, clock, peer, stream, pending, line, saidGoodbye, banner>>

Connects ==
  /\ grabStep = "connect" /\ BeforeDeadline
  /\ grabStep' = "read" /\ peer' = "open"
  /\ UNCHANGED <<grab, clock, stream, pending, line, saidGoodbye, banner>>

IsRefused ==
  /\ grabStep = "connect" /\ BeforeDeadline
  /\ NotConnected("refused")
  /\ UNCHANGED <<grab, clock, peer, stream, pending, line, saidGoodbye>>

\* No address, no route, no answer in time.
NotReachable ==
  /\ grabStep \in {"lookup", "connect"}
  /\ NotConnected("unreachable")
  /\ UNCHANGED <<grab, clock, peer, stream, pending, line, saidGoodbye>>

-----------------------------------------------------------------------------
\* The peer

PeerSends ==
  /\ peer = "open" /\ grabStep \notin {"idle", "done"} /\ Len(stream) < MaxBytes
  /\ \E byte \in Byte :
       stream' = Append(stream, byte) /\ pending' = Append(pending, byte)
  /\ UNCHANGED <<grab, grabStep, clock, peer, line, saidGoodbye, banner>>

PeerLeaves ==
  /\ peer = "open" /\ grabStep \notin {"idle", "done"}
  /\ peer' \in {"closed", "reset"}
  /\ UNCHANGED <<grab, grabStep, clock, stream, pending, line, saidGoodbye, banner>>

-----------------------------------------------------------------------------
\* _read_line

Reading == grabStep = "read" /\ Len(line) < Cap
LineEnds == grabStep' = "ended"

\* Mutated form: every read asks for a whole line again.
ChunkOfCap == SubSeq(pending, 1, IF Len(pending) < Cap THEN Len(pending) ELSE Cap)
\* reader.read(cap - len(received)): what is held, up to the room that is left.
Chunk ==
  LET room == Cap - Len(line)
  IN SubSeq(pending, 1, IF Len(pending) < room THEN Len(pending) ELSE room)

UpToNewline(bytes) ==
  IF Newline \in ToSet(bytes) THEN SubSeq(bytes, 1, SelectInSeq(bytes, LAMBDA b : b = Newline) - 1)
  ELSE bytes

Read ==
  /\ Reading /\ BeforeDeadline /\ peer # "reset" /\ pending # <<>>
  /\ line' = line \o UpToNewline(Chunk)
  /\ pending' = SubSeq(pending, Len(Chunk) + 1, Len(pending))
  /\ IF Newline \in ToSet(Chunk) THEN LineEnds ELSE UNCHANGED grabStep
  /\ UNCHANGED <<grab, clock, peer, stream, saidGoodbye, banner>>

\* The deadline, the close or an error ends the line, or it is full.
StopReading ==
  /\ grabStep = "read"
  /\ \/ Len(line) >= Cap
     \/ ~BeforeDeadline
     \/ peer = "closed" /\ pending = <<>>
     \/ peer = "reset"
  /\ LineEnds
  /\ UNCHANGED <<grab, clock, peer, stream, pending, line, saidGoodbye, banner>>

\* _converse: the farewell after a greeting, whether it can be sent or not; the
\* connection closed; and the state.  Neither wait has a deadline.
Converse ==
  /\ grabStep = "ended"
  /\ saidGoodbye' = (line # <<>> /\ grab.farewell)
  /\ banner' = IF line = <<>> THEN "silent" ELSE "greeted"
  /\ grabStep' = "done"
  /\ UNCHANGED <<grab, clock, peer, stream, pending, line>>

GrabNext ==
  \/ GrabTicks \/ PeerSends \/ PeerLeaves
  \/ LookupAnswers \/ Connects \/ IsRefused \/ NotReachable
  \/ Read \/ StopReading \/ Converse

GrabSpec == GrabInit /\ [][GrabNext]_grabVars

-----------------------------------------------------------------------------
FirstLine == UpToNewline(stream)
\* What of the first line one grab may keep.
Kept == SubSeq(FirstLine, 1, IF Len(FirstLine) < Cap THEN Len(FirstLine) ELSE Cap)

\* A greeting is the beginning of what the server sent, however it was cut into
\* pieces: never a byte of its second line, never more than the cap; all of the
\* first line that fits, unless the deadline or a reset cut the reading short;
\* and nothing is said to a server that said nothing (_read_line, _converse).
GreetingIsTheFirstLine ==
  banner \in {"silent", "greeted"} =>
    /\ IsPrefix(line, Kept)
    /\ line = Kept \/ ~BeforeDeadline \/ peer = "reset"
    /\ saidGoodbye => stream # <<>>

=============================================================================
