------------------------- MODULE IcmpAnswersProofs -------------------------
(***************************************************************************)
(* Facts about the packets of IcmpAnswers, for any probes, sequence        *)
(* numbers and hop limits and either kind of socket.                       *)
(***************************************************************************)
EXTENDS IcmpAnswers, Sequences, TLAPS

\* A packet the kernel can hand to this socket.
Genuine == {e \in Packets :
  /\ e.about \in Probes =>
       /\ e.seq = Sequence[e.about]
       /\ e.token \in {e.about, NoToken}
       /\ e.kind = "reply" => e.token = e.about
       /\ e.ident = "ours" /\ e.dest = "ours"
       /\ e.kind # "other"
  /\ e.about = Stranger =>
       /\ e.token \in {Foreign, NoToken}
       /\ e.kind = "reply" => e.token = Foreign
       /\ IsError(e) /\ e.token = NoToken => e.ident = "theirs" \/ e.dest = "theirs"
       /\ IsError(e) => Raw}

-----------------------------------------------------------------------------
\* What the kernel delivers is genuine.
LEMMA Delivered ==
  ASSUME NEW S \in SUBSET Probes
  PROVE  QueueableErrors(S) \subseteq Genuine /\ Receivable(S) \subseteq Genuine
<1>1. \A p \in Probes : About(p) \subseteq Genuine
  BY ProbesAssumption DEF About, Genuine, Packets, Kinds, IsError
<1>2. \A e \in Strangers : e \in Genuine \/ ~Raw
  BY ProbesAssumption DEF Strangers, Genuine, Packets, Kinds, IsError, SequencesUsed
<1>3. \A e \in Strangers : e.kind = "reply" => e \in Genuine
  BY ProbesAssumption DEF Strangers, Genuine, Packets, Kinds, IsError, SequencesUsed
<1>4. Noise \subseteq Genuine
  BY ProbesAssumption DEF Noise, Genuine, Packets, Kinds, IsError
<1>5. UNION {About(p) : p \in S} \subseteq Genuine
  BY <1>1
<1>6. QueueableErrors(S) \subseteq Genuine
  BY <1>2, <1>4, <1>5 DEF QueueableErrors
<1>7. Receivable(S) \subseteq Genuine
  <2>. SUFFICES ASSUME NEW d \in Receivable(S) PROVE d \in Genuine
    OBVIOUS
  <2>1. d \in UNION {About(p) : p \in S} \/ (d \in Strangers /\ (d.kind = "reply" \/ Raw))
    BY DEF Receivable
  <2>. QED BY <2>1, <1>2, <1>3, <1>5
<1>. QED BY <1>6, <1>7

\* Genuine packets are packets.
LEMMA GenuineArePackets == Genuine \subseteq Packets
BY DEF Genuine

\* A genuine packet about a probe is one of those the network may send about it.
LEMMA GenuineAbout ==
  ASSUME NEW e \in Genuine, e.about \in Probes
  PROVE  e \in About(e.about)
<1>1. e.kind \in {"reply", "expired", "undelivered"}
  BY DEF Genuine, Packets, Kinds
<1>2. e = [kind |-> e.kind, about |-> e.about, seq |-> e.seq, token |-> e.token,
           ident |-> e.ident, dest |-> e.dest]
  BY DEF Genuine, Packets
<1>. QED BY <1>1, <1>2 DEF Genuine, About

\* Taking packets off a queue, and putting them on one.
LEMMA QueueSteps ==
  ASSUME NEW S, NEW q \in Seq(S)
  PROVE  /\ \A x \in S : Append(q, x) \in Seq(S)
         /\ q # <<>> => Head(q) \in S /\ Tail(q) \in Seq(S)
OBVIOUS
=============================================================================
