---------------------------- MODULE IcmpAnswers ----------------------------
(***************************************************************************)
(* What one ICMP socket can hand to a POSIX echo transport, and when the   *)
(* transport credits it to a probe (src/ipscout/transport_posix.py).       *)
(*                                                                         *)
(* A packet is a record of what the program can see of it                  *)
(*   kind   "reply", "expired" (a router's Time Exceeded), "undelivered"   *)
(*          (an error saying the probe never got there), or "other" (a     *)
(*          Redirect, another protocol's error: parsed to nothing)         *)
(*   seq    the sequence number it carries or quotes                       *)
(*   token  the payload token, NoToken where a router quoted only the      *)
(*          ICMP header, Foreign for somebody else's payload               *)
(*   ident, dest   whether the identifier and the destination it quotes    *)
(*          are the transport's own; dest may be "unsaid"                  *)
(* together with `about', which the program cannot see: the probe that     *)
(* really caused it, or Stranger for another process's traffic.            *)
(***************************************************************************)
EXTENDS Naturals

CONSTANTS
  Probes,      \* the calls to probe() made on one transport
  Sequence,    \* the `sequence' argument of each call
  Ttl,         \* its `ttl' argument, NoTtl for None
  SystemTtl,   \* the hop limit a new socket sends with
  Raw,         \* a raw socket, rather than the unprivileged datagram one
  ErrorQueue,  \* Linux: ICMP errors are queued beside the datagrams
  NoToken, Foreign, Stranger

\* ttl=None; every real hop limit is at least 1.
NoTtl == 0

ASSUME ProbesAssumption ==
  /\ Sequence \in [Probes -> Nat]
  /\ Ttl \in [Probes -> Nat]
  /\ SystemTtl \in Nat \ {NoTtl}
  /\ Raw \in BOOLEAN /\ ErrorQueue \in BOOLEAN
  /\ NoToken \notin Probes /\ Foreign \notin Probes /\ Stranger \notin Probes
  /\ NoToken # Foreign

HopLimited(p) == Ttl[p] # NoTtl

Kinds == {"reply", "expired", "undelivered", "other"}

Packets == [kind  : Kinds,
            about : Probes \cup {Stranger},
            seq   : Nat,
            token : Probes \cup {NoToken, Foreign},
            ident : {"ours", "theirs"},
            dest  : {"ours", "theirs", "unsaid"}]

\* Everything the network may say about a probe that was sent: a reply brings
\* the whole payload back, an error quotes it as far as the router cared to.
About(p) ==
  [kind : {"reply"}, about : {p}, seq : {Sequence[p]}, token : {p},
   ident : {"ours"}, dest : {"ours"}]
  \cup
  [kind : {"expired", "undelivered"}, about : {p}, seq : {Sequence[p]},
   token : {p, NoToken}, ident : {"ours"}, dest : {"ours"}]

SequencesUsed == {Sequence[p] : p \in Probes}

\* Another process's echo traffic, which may use the same sequence numbers:
\* a reply with somebody else's payload; an error quoting somebody else's
\* token; or one cut short of it, which differs in the identifier or in the
\* destination. (That a stranger draws the same random 16-bit identifier
\* for the same destination is left out.)
Strangers ==
  [kind : {"reply"}, about : {Stranger}, seq : SequencesUsed,
   token : {Foreign}, ident : {"theirs"}, dest : {"ours"}]
  \cup
  [kind : {"expired", "undelivered"}, about : {Stranger}, seq : SequencesUsed,
   token : {Foreign}, ident : {"ours"}, dest : {"ours"}]
  \cup
  {e \in [kind : {"expired", "undelivered"}, about : {Stranger}, seq : SequencesUsed,
          token : {NoToken}, ident : {"ours", "theirs"}, dest : {"ours", "theirs"}] :
     e.ident = "theirs" \/ e.dest = "theirs"}

\* Redirects and the like: read off the error queue, about no probe.
Noise == [kind : {"other"}, about : {Stranger}, seq : {0}, token : {NoToken},
          ident : {"theirs"}, dest : {"unsaid"}]

IsError(e) == e.kind \in {"expired", "undelivered"}

-----------------------------------------------------------------------------
\* The kernel's side: what it puts on the error queue and among the datagrams
\* of this socket. A datagram (ping) socket only sees errors about its own
\* requests; a raw one sees every ICMP message of the host. Only a raw socket
\* receives Time Exceeded as data.
QueueableErrors(sent) ==
  IF ~ErrorQueue THEN {}
  ELSE {e \in UNION {About(p) : p \in sent} : IsError(e)}
       \cup Noise
       \cup (IF Raw THEN {e \in Strangers : IsError(e)} ELSE {})

Receivable(sent) ==
  LET visible == (UNION {About(p) : p \in sent}) \cup Strangers IN
  {d \in visible : d.kind = "reply"}
  \cup (IF Raw THEN {d \in visible : d.kind = "expired"} ELSE {})

-----------------------------------------------------------------------------
\* Mutant of Concerns: the sequence number of the quote is not compared.
ConcernsAnySequence(e, p) ==
  /\ IsError(e)
  /\ e.token \in {NoToken, p}
  /\ Raw => e.ident = "ours"
  /\ e.dest \in {"ours", "unsaid"}
  /\ HopLimited(p) \/ e.kind = "undelivered"

\* transport_posix._concerns: an error is about a probe if it matches on
\* everything it carries, and a Time Exceeded only answers a hop-limited one.
Concerns(e, p) ==
  /\ IsError(e)
  /\ e.seq = Sequence[p]
  /\ e.token \in {NoToken, p}
  /\ Raw => e.ident = "ours"
  /\ e.dest \in {"ours", "unsaid"}
  /\ HopLimited(p) \/ e.kind = "undelivered"
=============================================================================
