------------------------------- MODULE PortScan -------------------------------
(***************************************************************************)
(* scan_ports and ascan_ports (src/ipscout/portscan.py, tcpsyn.py).        *)
(*                                                                         *)
(* A SYN scan sends everything over one raw socket and listens on another, *)
(* which hears all TCP traffic of the host: strangers' packets, other      *)
(* scans, retransmitted and contradicting answers, in any order.  A        *)
(* connect scan asks each port with a connection of its own, a bounded     *)
(* number at a time.                                                       *)
(***************************************************************************)
EXTENDS Naturals, FiniteSets, Sequences

CONSTANTS
  AskedPorts,   \* the ports asked about, each once (_wanted)
  OtherPorts,     \* ports nobody asked about
  Concurrency,    \* connects in flight at once
  MaxPackets      \* bound: packets a SYN scan receives

ASSUME PortsAssumption ==
  /\ AskedPorts # {} /\ AskedPorts \cap OtherPorts = {}
  /\ Concurrency \in Nat \ {0} /\ MaxPackets \in Nat

VARIABLES
  scan,         \* the call: method and platform
  scanStep,     \* where it is
  sockets,      \* raw sockets open: a subset of {"sender", "receiver"}
  ports,        \* found: the state of every port asked about
  outstanding,  \* ports with no answer yet
  inFlight,     \* connects under way
  met,          \* what the target said of each port, in order
  packets,      \* packets received so far
  scanAnswer

scanVars == <<scan, scanStep, sockets, ports, outstanding, inFlight, met, packets, scanAnswer>>

Scans == [method : {"syn", "connect"}, platform : {"posix", "windows"}, valid : BOOLEAN]

ScanFresh ==
  /\ sockets = {} /\ ports = [p \in AskedPorts |-> "filtered"] /\ outstanding = AskedPorts
  /\ inFlight = {} /\ met = [p \in AskedPorts |-> <<>>] /\ packets = 0 /\ scanAnswer = "none"

ScanInit ==
  /\ scan \in Scans /\ scanStep = "start"
  /\ ScanFresh

ScanEnds(answer) == scanStep' = "done" /\ scanAnswer' = answer

\* The arguments are checked and the host resolved before anything is sent.
Start ==
  /\ scanStep = "start"
  /\ \E resolved \in BOOLEAN :
       IF ~scan.valid \/ ~resolved \/ (scan.method = "syn" /\ scan.platform = "windows")
         THEN ScanEnds("raised")
         ELSE scanStep' = (IF scan.method = "syn" THEN "open" ELSE "connect") /\ UNCHANGED scanAnswer
  /\ UNCHANGED <<scan, sockets, ports, outstanding, inFlight, met, packets>>

-----------------------------------------------------------------------------
\* _half_open

\* No source address, or a raw socket refused: the one opened first stays
\* open until it is collected.
OpenSender ==
  /\ scanStep = "open"
  /\ \/ sockets' \in SUBSET {"sender"} /\ ScanEnds("raised")
     \/ sockets' = {"sender", "receiver"} /\ scanStep' = "send" /\ UNCHANGED scanAnswer
  /\ UNCHANGED <<scan, ports, outstanding, inFlight, met, packets>>

\* Every SYN, one that cannot be sent being passed over.
SendSyns ==
  /\ scanStep = "send"
  /\ scanStep' = "listen"
  /\ UNCHANGED <<scan, sockets, ports, outstanding, inFlight, met, packets, scanAnswer>>

\* What a raw TCP socket can receive: from this host or another, to this scan's
\* source port or another.
Packets ==
  [fromHost : BOOLEAN, toOurPort : BOOLEAN, port : AskedPorts \cup OtherPorts,
   flags : {"synAck", "rst", "ack"}]

\* read_reply: the port the packet concerns and what it says, or nothing.
Says(packet) == packet.fromHost /\ packet.toOurPort /\ packet.flags # "ack"
StateOf(packet) == IF packet.flags = "synAck" THEN "open" ELSE "closed"

Listening == scanStep = "listen" /\ outstanding # {}

Noted(packet) ==
  /\ met' = IF Says(packet) /\ packet.port \in AskedPorts
              THEN [met EXCEPT ![packet.port] = Append(@, StateOf(packet))] ELSE met
  /\ packets' = packets + 1

\* Mutated form: any port asked about may be answered again.
ReceiveAgain ==
  /\ Listening /\ packets < MaxPackets
  /\ \E packet \in Packets :
       /\ Noted(packet)
       /\ IF Says(packet) /\ packet.port \in AskedPorts
            THEN /\ ports' = [ports EXCEPT ![packet.port] = StateOf(packet)]
                 /\ outstanding' = outstanding \ {packet.port}
            ELSE UNCHANGED <<ports, outstanding>>
  /\ UNCHANGED <<scan, scanStep, sockets, inFlight, scanAnswer>>

\* _syn_exchange
Receive ==
  /\ Listening /\ packets < MaxPackets
  /\ \E packet \in Packets :
       /\ Noted(packet)
       /\ IF Says(packet) /\ packet.port \in outstanding
            THEN /\ ports' = [ports EXCEPT ![packet.port] = StateOf(packet)]
                 /\ outstanding' = outstanding \ {packet.port}
            ELSE UNCHANGED <<ports, outstanding>>
  /\ UNCHANGED <<scan, scanStep, sockets, inFlight, scanAnswer>>

\* Everything answered, the deadline, or an error of the receive.
ListenEnds ==
  /\ scanStep = "listen"
  /\ sockets' = {} /\ ScanEnds("states")
  /\ UNCHANGED <<scan, ports, outstanding, inFlight, met, packets>>

-----------------------------------------------------------------------------
\* _connect_scan over the bounded pool

Connect(port) ==
  /\ scanStep = "connect" /\ port \in outstanding \ inFlight
  /\ Cardinality(inFlight) < Concurrency
  /\ inFlight' = inFlight \cup {port}
  /\ UNCHANGED <<scan, scanStep, sockets, ports, outstanding, met, packets, scanAnswer>>

\* Accepted, refused (on Windows perhaps only after the timeout), no answer in
\* time, or another error.
ConnectEnds(port) ==
  /\ port \in inFlight
  /\ \E outcome \in {"open", "closed", "filtered"} :
       /\ ports' = [ports EXCEPT ![port] = outcome]
       /\ met' = IF outcome = "filtered" THEN met ELSE [met EXCEPT ![port] = Append(@, outcome)]
  /\ inFlight' = inFlight \ {port} /\ outstanding' = outstanding \ {port}
  /\ UNCHANGED <<scan, scanStep, sockets, packets, scanAnswer>>

ConnectedToAll ==
  /\ scanStep = "connect" /\ outstanding = {}
  /\ ScanEnds("states")
  /\ UNCHANGED <<scan, sockets, ports, outstanding, inFlight, met, packets>>

ScanNext ==
  \/ Start \/ OpenSender \/ SendSyns \/ Receive \/ ListenEnds
  \/ (\E port \in AskedPorts : Connect(port) \/ ConnectEnds(port)) \/ ConnectedToAll

ScanSpec == ScanInit /\ [][ScanNext]_scanVars

-----------------------------------------------------------------------------
\* What a port is reported as, after what the target said of it.
FirstSaid(port) == IF met[port] = <<>> THEN "filtered" ELSE Head(met[port])

\* A scan reports what the target said first about each port, however often it
\* is retransmitted or contradicted and whoever else talks to this host, and
\* FILTERED for exactly the ports it said nothing of; no socket stays open
\* behind a scan that answers (_syn_exchange, _connect_scan).
ScanKeepsFirstAnswers ==
  scanAnswer = "states" =>
    /\ \A port \in AskedPorts : ports[port] = FirstSaid(port)
    /\ sockets = {} /\ inFlight = {}

=============================================================================
