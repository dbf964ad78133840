--------------------------- MODULE CommandLineProofs ---------------------------
(***************************************************************************)
(* Proofs about CommandLine: what CallProofs shows of each call holds of   *)
(* the calls a command or a program makes, and the exit code of a command  *)
(* and its one document tell what that call met.                           *)
(***************************************************************************)
EXTENDS CommandLine, CallProofs

-----------------------------------------------------------------------------
\* How each call ends, as far as an exit code depends on it.

\* A removal ends with an error, or with whether it removed anything.
WriteEndInv ==
  write.op = "remove" =>
    /\ writeStep \notin {"create", "look", "displace", "again", "confirm"}
    /\ writeStep = "done" => writeAnswer \in {"raised", "removed", "nothing"}

LookEndInv == found.kind = "answer" => found.method \in {"active", "cache"}

GrabEndInv == grabStep = "done" => (banner = "greeted" <=> line # <<>>)

\* A size is positive, and nothing else has one; without one, nothing tried fitted.
MtuEndInv ==
  /\ Smallest <= low
  /\ mtuStep = "done" /\ mtuAnswer.kind # "size" => \A i \in DOMAIN tried : ~tried[i].fits
  /\ mtuAnswer.size \in Nat /\ (mtuAnswer.kind = "size" <=> mtuAnswer.size > 0)

SweepEndInv == sweepStep = "done" => sweepAnswer.kind \in {"answer", "raised"}

\* A removal never turns into a write.
LEMMA WriteEndKept == WriteInv /\ WriteEndInv /\ [WriteNext]_writeVars => WriteEndInv'
  <1> SUFFICES ASSUME WriteInv, WriteEndInv, [WriteNext]_writeVars, write'.op = "remove"
               PROVE  /\ writeStep' \notin {"create", "look", "displace", "again", "confirm"}
                      /\ writeStep' = "done" => writeAnswer' \in {"raised", "removed", "nothing"}
    BY DEF WriteEndInv
  <1>1. write' = write
    BY DEF WriteNext, OtherWrites, Validate, KernelRefuses, Unacknowledged, Replace, Create, Look, Displace,
       Confirm, List, DeleteOn, LookOn, DeleteByAddress, Removed, writeVars
  <1>2. write.op = "remove"
    BY <1>1
  <1>3. CASE OtherWrites \/ UNCHANGED writeVars
    BY <1>2, <1>3 DEF WriteEndInv, OtherWrites, writeVars
  <1>4. CASE Validate
    BY <1>2, <1>4 DEF Validate, Answer, GoOn
  <1>5. CASE KernelRefuses \/ Unacknowledged
    BY <1>5 DEF KernelRefuses, Unacknowledged, Answer
  <1>6. CASE Replace \/ Create \/ Look \/ Displace \/ Confirm
    BY <1>2, <1>6 DEF WriteEndInv, Replace, Create, Look, Displace, Confirm
  <1>7. CASE List \/ DeleteByAddress
    BY <1>7 DEF List, DeleteByAddress, GoOn
  <1>8. CASE \E l \in Links : DeleteOn(l) \/ LookOn(l)
    BY <1>8 DEF DeleteOn, LookOn, GoOn
  <1>9. CASE Removed
    BY <1>9 DEF Removed, Answer
  <1> QED
    BY <1>3, <1>4, <1>5, <1>6, <1>7, <1>8, <1>9 DEF WriteNext

\* Every answer is from the network or from the cache.
LEMMA LookEndKept == LookInv /\ LookEndInv /\ [LookupNext]_lookVars => LookEndInv'
  <1> SUFFICES ASSUME LookEndInv, [LookupNext]_lookVars PROVE LookEndInv'
    OBVIOUS
  <1>1. \A error : error # "answer" /\ Conclude(Raised(error)) => LookEndInv'
    BY ErrorGiven DEF LookEndInv
  <1>2. \A where, mac, interface : \A how \in {"active", "cache"} :
          Conclude(MacLookup(where, mac, interface, how)) => LookEndInv'
    BY AnswerGiven DEF LookEndInv
  <1>3. UNCHANGED found => LookEndInv'
    BY DEF LookEndInv
  <1>4. CASE QueryRoute \/ SendRequest \/ CannotAsk \/ UNCHANGED lookVars
    BY <1>1, <1>3, <1>4 DEF QueryRoute, SendRequest, CannotAsk, lookVars
  <1>5. CASE HearAnswer \/ NobodyAnswers
    BY <1>2, <1>5 DEF HearAnswer, NobodyAnswers, AskedAnswer
  <1>6. CASE ReadCache
    BY <1>2, <1>6 DEF ReadCache
  <1> QED
    BY <1>4, <1>5, <1>6 DEF LookupNext

\* A server greeted exactly if something of its line was kept.
LEMMA GrabEndKept == GrabInv /\ GrabEndInv /\ [GrabNext]_grabVars => GrabEndInv'
  <1> SUFFICES ASSUME GrabInv, GrabEndInv, [GrabNext]_grabVars, grabStep' = "done"
               PROVE  banner' = "greeted" <=> line' # <<>>
    BY DEF GrabEndInv
  <1>1. CASE Converse
    BY <1>1 DEF Converse
  <1>2. CASE IsRefused \/ NotReachable
    BY <1>2 DEF IsRefused, NotReachable, NotConnected, GrabInv, GrabStepInv
  <1>3. CASE GrabTicks \/ PeerSends \/ PeerLeaves \/ LookupAnswers \/ Connects \/ Read \/ StopReading \/ UNCHANGED grabVars
    BY <1>3 DEF GrabEndInv, GrabTicks, PeerSends, PeerLeaves, LookupAnswers, Connects, Read, Reading, StopReading,
       LineEnds, grabVars
  <1> QED
    BY <1>1, <1>2, <1>3 DEF GrabNext

\* The lower bound only rises, so a size answered is positive.
LEMMA MtuEndKept == MtuInv /\ MtuEndInv /\ [MtuNext]_mtuVars => MtuEndInv'
  <1> SUFFICES ASSUME MtuInv, MtuEndInv, [MtuNext]_mtuVars PROVE MtuEndInv'
    OBVIOUS
  <1>1. low \in Nat /\ high \in Nat /\ limit \in Nat /\ Smallest \in Nat /\ Smallest > 0
    BY MtuAssumption DEF MtuInv, MtuTypeInv
  <1>2. Unavailable.size = 0 /\ Unavailable.kind # "size" /\ \A n : Size(n).kind = "size" /\ Size(n).size = n
    BY DEF Unavailable, Size
  <1>3. CASE PathChanges \/ StartProbing \/ UNCHANGED mtuVars
    BY <1>3 DEF MtuEndInv, PathChanges, StartProbing, mtuVars
  <1>0. mtuStep = "start" => DOMAIN tried = {}
    BY DEF MtuInv, BoundsInv
  <1>4. CASE MtuRefused
    <2>1. [NoSize EXCEPT !.kind = "raised"].kind = "raised" /\ [NoSize EXCEPT !.kind = "raised"].size = 0
      BY DEF NoSize
    <2> QED
      BY <1>0, <1>4, <2>1 DEF MtuEndInv, MtuRefused, MtuEnds
  <1>5. CASE AskKernel
    BY <1>0, <1>1, <1>2, <1>5 DEF MtuEndInv, AskKernel, MtuEnds
  <1>6. CASE CannotProbe
    BY <1>0, <1>2, <1>6 DEF MtuEndInv, CannotProbe, MtuEnds
  <1>9. CASE TryFloor
    <2>1. PICK fitting \in BOOLEAN :
            /\ Try(low, fitting)
            /\ IF fitting THEN mtuStep' = "search" /\ UNCHANGED mtuAnswer ELSE MtuEnds(Unavailable)
      BY <1>9 DEF TryFloor
    <2>2. UNCHANGED low /\ mtuStep = "floor"
      BY <1>9 DEF TryFloor
    <2>3. CASE fitting
      BY <2>1, <2>2, <2>3 DEF MtuEndInv
    <2>4. CASE ~fitting
      <3>1. tried = <<>>
        BY <2>2 DEF MtuInv, BoundsInv
      <3>2. tried' = <<[size |-> low, fits |-> fitting]>>
        BY <2>1, <3>1 DEF Try
      <3>3. \A i \in DOMAIN tried' : ~tried'[i].fits
        BY <2>4, <3>2
      <3> QED
        BY <1>2, <2>1, <2>2, <2>4, <3>3 DEF MtuEndInv, MtuEnds
    <2> QED
      BY <2>3, <2>4
  <1>7. CASE TryMiddle
    <2>1. Middle \in Nat /\ low < Middle
      BY <1>1, <1>7, MiddleIsBetween DEF TryMiddle
    <2>2. low' \in {low, Middle} /\ mtuAnswer' = mtuAnswer /\ mtuStep' = "search"
      BY <1>7 DEF TryMiddle
    <2>3. Smallest <= low'
      BY <1>1, <2>1, <2>2 DEF MtuEndInv
    <2> QED
      BY <2>2, <2>3 DEF MtuEndInv
  <1>8. CASE SearchEnds
    BY <1>1, <1>2, <1>8 DEF MtuEndInv, SearchEnds, MtuEnds
  <1> QED
    BY <1>3, <1>4, <1>5, <1>6, <1>7, <1>8, <1>9 DEF MtuNext

\* A sweep ends with an answer or an error.
LEMMA SweepEndKept == SweepInv /\ SweepEndInv /\ [SweepNext]_sweepVars => SweepEndInv'
  <1> SUFFICES ASSUME SweepEndInv, [SweepNext]_sweepVars, sweepStep' = "done"
               PROVE  sweepAnswer'.kind \in {"answer", "raised"}
    BY DEF SweepEndInv
  <1>1. CASE CacheChanges \/ (\E a \in Grounds : PingHost(a)) \/ AllPinged \/ UNCHANGED sweepVars
    BY <1>1 DEF SweepEndInv, CacheChanges, PingHost, AllPinged, sweepVars
  <1>2. CASE CheckSweep \/ PlanSweep \/ ReadEntries
    BY <1>2 DEF CheckSweep, PlanSweep, ReadEntries, Conclusion, SweepRefused, SweepEnds
  <1> QED
    BY <1>1, <1>2 DEF SweepNext
-----------------------------------------------------------------------------
\* The calls an invocation may make: the one of its command is under way, and the
\* others have not begun.

EchoPart == IF invocation.command \in {"ping", "reachable"} THEN EchoInv ELSE EchoIdle
WritePart ==
  IF invocation.command \in {"set-neighbour", "remove-neighbour"} THEN WriteInv /\ WriteEndInv ELSE WriteIdle
LookPart == IF invocation.command = "mac" THEN LookInv /\ LookEndInv ELSE LookupIdle
ScanPart == IF invocation.command = "scan-ports" THEN ScanInv ELSE ScanIdle
GrabPart == IF invocation.command = "banners" THEN GrabInv /\ GrabEndInv ELSE GrabIdle
MtuPart == IF invocation.command = "mtu" THEN MtuInv /\ MtuEndInv ELSE MtuIdle
SweepPart == IF invocation.command \in {"find-ip", "arp-scan"} THEN SweepInv /\ SweepEndInv ELSE SweepIdle

CallParts == EchoPart /\ WritePart /\ LookPart /\ ScanPart /\ GrabPart /\ MtuPart /\ SweepPart

\* The call of the command begins, and no other does.
LEMMA PartsInitially ==
  ASSUME Calling(invocation.command)
  PROVE  CallParts
  <1>1. EchoPart
    BY EchoInitially DEF EchoPart, Calling
  <1>2. WritePart
    BY WriteInitially DEF WritePart, Calling, WriteInit, WriteEndInv
  <1>3. LookPart
    BY LookInitially DEF LookPart, Calling, LookupInit, LookupFresh, NotFound, LookEndInv
  <1>4. ScanPart
    BY ScanInitially DEF ScanPart, Calling
  <1>5. GrabPart
    BY GrabInitially DEF GrabPart, Calling, GrabInit, GrabEndInv
  <1>6. MtuPart
    <2>1. MtuInit => MtuEndInv
      BY MtuAssumption DEF MtuInit, MtuFresh, NoSize, MtuEndInv
    <2> QED
      BY <2>1, MtuInitially DEF MtuPart, Calling
  <1>7. SweepPart
    BY SweepInitially DEF SweepPart, Calling, SweepInit, SweepEndInv
  <1> QED
    BY <1>1, <1>2, <1>3, <1>4, <1>5, <1>6, <1>7 DEF CallParts

\* A step of a call that has not begun is none.
LEMMA IdleStays ==
  /\ EchoIdle /\ [EchoNext]_echoVars => EchoIdle'
  /\ WriteIdle /\ [WriteNext]_writeVars => WriteIdle'
  /\ LookupIdle /\ [LookupNext]_lookVars => LookupIdle'
  /\ ScanIdle /\ [ScanNext]_scanVars => ScanIdle'
  /\ GrabIdle /\ [GrabNext]_grabVars => GrabIdle'
  /\ MtuIdle /\ [MtuNext]_mtuVars => MtuIdle'
  /\ SweepIdle /\ [SweepNext]_sweepVars => SweepIdle'
  <1>1. EchoIdle /\ [EchoNext]_echoVars => EchoIdle'
    <2>1. EchoIdle => ~EchoNext
      BY DEF EchoIdle, EchoFresh, EchoNext, Resolve, Check, Choose, Open, OpenRefused, Probe, Outcome, Pause,
         ProbeRaises, Close, Cancel, WorkerStarts, WorkerReturnsAlone
    <2> QED
      BY <2>1 DEF EchoIdle, EchoFresh, echoVars
  <1>2. WriteIdle /\ [WriteNext]_writeVars => WriteIdle'
    <2>1. WriteIdle => ~WriteNext
      BY DEF WriteIdle, WriteNext, OtherWrites, Validate, KernelRefuses, RefusedByAck, RefusedByStatus,
         RefusedByErrno, Unacknowledged, Replace, Create, Look, Displace, Confirm, List, DeleteOn, LookOn,
         DeleteByAddress, Removed
    <2> QED
      BY <2>1 DEF WriteIdle, WriteFresh, writeVars
  <1>3. LookupIdle /\ [LookupNext]_lookVars => LookupIdle'
    <2>1. LookupIdle => ~LookupNext
      BY DEF LookupIdle, LookupNext, QueryRoute, SendRequest, CannotAsk, HearAnswer, NobodyAnswers, ReadCache
    <2> QED
      BY <2>1 DEF LookupIdle, LookupFresh, lookVars
  <1>4. ScanIdle /\ [ScanNext]_scanVars => ScanIdle'
    <2>1. ScanIdle => ~ScanNext
      BY DEF ScanIdle, ScanFresh, ScanNext, Start, OpenSender, SendSyns, Receive, Listening, ListenEnds,
         Connect, ConnectEnds, ConnectedToAll
    <2> QED
      BY <2>1 DEF ScanIdle, ScanFresh, scanVars
  <1>5. GrabIdle /\ [GrabNext]_grabVars => GrabIdle'
    <2>1. GrabIdle => ~GrabNext
      BY DEF GrabIdle, GrabNext, GrabTicks, PeerSends, PeerLeaves, LookupAnswers, Connects, IsRefused,
         NotReachable, Read, Reading, StopReading, Converse
    <2> QED
      BY <2>1 DEF GrabIdle, GrabFresh, grabVars
  <1>6. MtuIdle /\ [MtuNext]_mtuVars => MtuIdle'
    <2>1. MtuIdle => ~MtuNext
      BY DEF MtuIdle, MtuNext, PathChanges, MtuRefused, AskKernel, CannotProbe, StartProbing, TryFloor,
         TryMiddle, SearchEnds
    <2> QED
      BY <2>1 DEF MtuIdle, MtuFresh, mtuVars
  <1>7. SweepIdle /\ [SweepNext]_sweepVars => SweepIdle'
    <2>1. SweepIdle => ~SweepNext
      BY DEF SweepIdle, SweepNext, CacheChanges, CheckSweep, PlanSweep, PingHost, AllPinged, ReadEntries
    <2> QED
      BY <2>1 DEF SweepIdle, SweepFresh, sweepVars
  <1> QED
    BY <1>1, <1>2, <1>3, <1>4, <1>5, <1>6, <1>7

\* Every step of a command is one of each call, or leaves it alone.
LEMMA StepOfEach ==
  ASSUME [CommandNext]_commandVars
  PROVE  /\ UNCHANGED invocation
         /\ [EchoNext]_echoVars /\ [WriteNext]_writeVars /\ [LookupNext]_lookVars /\ [ScanNext]_scanVars
         /\ [GrabNext]_grabVars /\ [MtuNext]_mtuVars /\ [SweepNext]_sweepVars
  <1>1. CASE CallNext /\ UNCHANGED cliVars
    BY <1>1 DEF CallNext, cliVars
  <1>2. CASE UNCHANGED invocation /\ UNCHANGED callVars
    BY <1>2 DEF callVars
  <1>3. CASE ~CallNext
    BY <1>2, <1>3 DEF CommandNext, Parse, Return, ReturnOther, Emit, Fail, Escape, commandVars, cliVars
  <1> QED
    BY <1>1, <1>2, <1>3 DEF CommandNext, Parse, Return, ReturnOther, Emit, Fail, Escape, commandVars, cliVars

\* The call of the command keeps its invariant, and no other begins.
LEMMA PartsKept ==
  ASSUME CallParts, [CommandNext]_commandVars
  PROVE  CallParts'
  <1>1. invocation' = invocation
    BY StepOfEach
  <1>2. EchoPart'
    BY <1>1, StepOfEach, EchoKept, IdleStays DEF CallParts, EchoPart
  <1>3. WritePart'
    BY <1>1, StepOfEach, WriteKept, WriteEndKept, IdleStays DEF CallParts, WritePart
  <1>4. LookPart'
    BY <1>1, StepOfEach, LookKept, LookEndKept, IdleStays DEF CallParts, LookPart
  <1>5. ScanPart'
    BY <1>1, StepOfEach, ScanKept, IdleStays DEF CallParts, ScanPart
  <1>6. GrabPart'
    BY <1>1, StepOfEach, GrabKept, GrabEndKept, IdleStays DEF CallParts, GrabPart
  <1>7. MtuPart'
    BY <1>1, StepOfEach, MtuKept, MtuEndKept, IdleStays DEF CallParts, MtuPart
  <1>8. SweepPart'
    BY <1>1, StepOfEach, SweepKept, SweepEndKept, IdleStays DEF CallParts, SweepPart
  <1> QED
    BY <1>2, <1>3, <1>4, <1>5, <1>6, <1>7, <1>8 DEF CallParts
-----------------------------------------------------------------------------
\* What a command makes of its answer is what its call met.

\* The call of an invocation has ended: no other was made.
LEMMA EndedCall ==
  ASSUME CallParts, CallEnded
  PROVE  /\ invocation.command \in {"ping", "reachable"} => step = "done"
         /\ invocation.command \in {"set-neighbour", "remove-neighbour"} => writeStep = "done"
         /\ invocation.command = "banners" => grabStep = "done"
         /\ invocation.command = "mtu" => mtuStep = "done"
         /\ invocation.command \in {"find-ip", "arp-scan"} => sweepStep = "done"
  <1>1. invocation.command \in {"ping", "reachable"} \/ step = "idle"
    BY DEF CallParts, EchoPart, EchoIdle
  <1>2. invocation.command \in {"set-neighbour", "remove-neighbour"} \/ writeStep = "idle"
    BY DEF CallParts, WritePart, WriteIdle
  <1>3. invocation.command = "mac" \/ lookStep = "idle"
    BY DEF CallParts, LookPart, LookupIdle
  <1>4. invocation.command = "scan-ports" \/ scanStep = "idle"
    BY DEF CallParts, ScanPart, ScanIdle
  <1>5. invocation.command = "banners" \/ grabStep = "idle"
    BY DEF CallParts, GrabPart, GrabIdle
  <1>6. invocation.command = "mtu" \/ mtuStep = "idle"
    BY DEF CallParts, MtuPart, MtuIdle
  <1>7. invocation.command \in {"find-ip", "arp-scan"} \/ sweepStep = "idle"
    BY DEF CallParts, SweepPart, SweepIdle
  <1> QED
    BY <1>1, <1>2, <1>3, <1>4, <1>5, <1>6, <1>7 DEF CallEnded

\* ping: yes if some probe was timed, no if none was.
LEMMA PingVerdictIsRight ==
  ASSUME EchoInv, invocation.command = "ping"
  PROVE  (PingVerdict = "yes" => Met) /\ (PingVerdict = "no" => ~Met)
  <1>1. Met = \E i \in DOMAIN sent : Timed(sent[i].outcome)
    BY DEF Met
  <1>2. PingVerdict \in {"yes", "no"} => answer.kind = "result" /\ PingVerdict = YesOr("no", answer.yes)
    BY DEF PingVerdict
  <1>3. answer.kind = "result" =>
          /\ answer.yes = TimedOver(answer.method)
          /\ \A i \in DOMAIN sent : sent[i].method = answer.method
    BY DEF EchoInv, EchoAnswerInv, PingTellsWhatCameBack
  <1>4. answer.kind = "result" => (answer.yes <=> \E i \in DOMAIN sent : Timed(sent[i].outcome))
    BY <1>3 DEF TimedOver
  <1> QED
    BY <1>1, <1>2, <1>4 DEF YesOr

\* reachable: yes if some probe was timed, over either method.
LEMMA ReachableVerdictIsRight ==
  ASSUME EchoInv, invocation.command = "reachable", CallOf("reachable"), step = "done"
  PROVE  (YesOr("no", answer.yes) = "yes" => Met) /\ (YesOr("no", answer.yes) = "no" => ~Met)
  <1>1. Met = \E i \in DOMAIN sent : Timed(sent[i].outcome)
    BY DEF Met
  <1>2. answer.kind = "reachability"
    BY DEF EchoInv, EchoStepInv, EchoAnswerInv, CallOf
  <1>3. answer.yes = (TimedOver("icmp") \/ TimedOver("tcp"))
    BY <1>2 DEF EchoInv, EchoAnswerInv, ReachableTellsWhetherAnyTryAnswered
  <1>4. \A i \in DOMAIN sent : sent[i].method \in {"icmp", "tcp"}
    <2>1. sent \in Seq(Probes(address)) /\ \A p \in Probes(address) : p.method \in {"icmp", "tcp"}
      BY DEF EchoInv, EchoTypeInv, Probes
    <2> HIDE DEF Probes
    <2> QED
      BY <2>1
  <1>5. answer.yes <=> \E i \in DOMAIN sent : Timed(sent[i].outcome)
    BY <1>3, <1>4 DEF TimedOver
  <1> QED
    BY <1>1, <1>5 DEF YesOr

\* set-neighbour and remove-neighbour: what the table held and lost.
LEMMA WriteVerdictIsRight ==
  ASSUME WriteInv, WriteEndInv, writeStep = "done"
  PROVE  /\ invocation.command = "set-neighbour" =>
              (SetVerdict = "yes" => Met) /\ SetVerdict # "no"
         /\ invocation.command = "remove-neighbour" /\ write.op = "remove" =>
              (RemoveVerdict = "yes" => Met) /\ (RemoveVerdict = "no" => ~Met)
  <1>1. deletions \in Nat
    BY DEF WriteInv, WriteTypeInv
  <1>2. invocation.command = "set-neighbour" => Met = held
    BY DEF Met
  <1>3. invocation.command = "remove-neighbour" => Met = (deletions > 0)
    BY DEF Met
  <1>4. /\ writeAnswer = "set" => held
        /\ writeAnswer = "removed" => deletions > 0
        /\ writeAnswer = "nothing" => deletions = 0
    BY DEF WriteInv, SetMeansHeld, RemovalIsTruthful
  <1>5. SetVerdict # "no" /\ (SetVerdict = "yes" => held)
    BY <1>4 DEF SetVerdict, YesOr
  <1>6. ASSUME write.op = "remove"
        PROVE  (RemoveVerdict = "yes" => deletions > 0) /\ (RemoveVerdict = "no" => ~(deletions > 0))
    <2>1. writeAnswer \in {"raised", "removed", "nothing"}
      BY <1>6 DEF WriteEndInv
    <2>2. CASE writeAnswer = "nothing"
      BY <1>4, <2>2 DEF RemoveVerdict, YesOr
    <2>3. CASE writeAnswer # "nothing"
      BY <1>4, <2>1, <2>3 DEF RemoveVerdict, YesOr
    <2> QED
      BY <2>2, <2>3
  <1> QED
    BY <1>2, <1>3, <1>5, <1>6

\* mac: an address was heard or read.
LEMMA MacVerdictIsRight ==
  ASSUME LookInv, LookEndInv, invocation.command = "mac"
  PROVE  (MacVerdict = "yes" => Met) /\ (MacVerdict = "no" => ~Met)
  <1>1. Met = /\ found.mac # NoMac /\ (lookup.strict => ~Routed(route))
              /\ found.mac \in {heard} \cup cacheRead
    BY DEF Met
  <1>2. MacVerdict \in {"yes", "no"} => found.kind = "answer" /\ (MacVerdict = "yes" <=> found.mac # NoMac)
    BY DEF MacVerdict, YesOr
  <1>3. ASSUME found.kind = "answer", found.mac # NoMac
        PROVE  (lookup.strict => ~Routed(route)) /\ found.mac \in {heard} \cup cacheRead
    BY <1>3 DEF LookInv, LookEndInv, LookupTellsWhoseAddress, ScopeIsRight, MethodIsRight
  <1> QED
    BY <1>1, <1>2, <1>3

\* scan-ports: some port said first that it is open.
LEMMA ScanVerdictIsRight ==
  ASSUME ScanInv, invocation.command = "scan-ports"
  PROVE  (ScanVerdict = "yes" => Met) /\ (ScanVerdict = "no" => ~Met)
  <1>1. Met = \E port \in AskedPorts : FirstSaid(port) = "open"
    BY DEF Met
  <1>2. \A port \in AskedPorts : ports[port] = FirstSaid(port)
    BY DEF ScanInv, ScanAnswersInv
  <1> HIDE DEF FirstSaid
  <1> QED
    BY <1>1, <1>2 DEF ScanVerdict, YesOr

\* banners: something of a line was kept.
LEMMA BannerVerdictIsRight ==
  ASSUME GrabEndInv, grabStep = "done", invocation.command = "banners"
  PROVE  (BannerVerdict = "yes" => Met) /\ (BannerVerdict = "no" => ~Met)
  BY DEF GrabEndInv, BannerVerdict, YesOr, Met

\* mtu: a size was tried and fitted, or the kernel had a limit.
LEMMA MtuVerdictIsRight ==
  ASSUME MtuInv, MtuEndInv, mtuStep = "done", invocation.command = "mtu"
  PROVE  (MtuVerdict = "yes" => Met) /\ (MtuVerdict = "no" => ~Met)
  <1>1. Met = IF mtu.platform = "linux" THEN mtuAnswer.size \in limits \ {0}
                                        ELSE \E i \in DOMAIN tried : tried[i].fits
    BY DEF Met
  <1>2. /\ MtuVerdict = "yes" => mtuAnswer.kind = "size"
        /\ MtuVerdict = "no" => mtuAnswer.kind # "size"
    BY DEF MtuVerdict, YesOr
  <1>3. CASE mtuAnswer.kind # "size"
    <2>1. \A i \in DOMAIN tried : ~tried[i].fits
      BY <1>3 DEF MtuEndInv
    <2>2. mtuAnswer.size = 0
      BY <1>3 DEF MtuEndInv
    <2>3. ~Met
      BY <1>1, <2>1, <2>2
    <2> QED
      BY <1>2, <1>3, <2>3
  <1>4. CASE mtuAnswer.kind = "size" /\ mtu.platform = "linux"
    <2>1. mtuAnswer.size \in limits /\ mtuAnswer.size # 0
      BY <1>4 DEF MtuEndInv, MtuInv, MtuIsWhereThePathEnds
    <2>2. Met
      BY <1>1, <1>4, <2>1
    <2> QED
      BY <1>2, <1>4, <2>2
  <1>5. CASE mtuAnswer.kind = "size" /\ mtu.platform # "linux"
    <2>1. [size |-> mtuAnswer.size, fits |-> TRUE] \in ToSet(tried)
      BY <1>5 DEF MtuInv, MtuIsWhereThePathEnds
    <2>2. \E i \in DOMAIN tried : tried[i].fits
      BY <2>1 DEF ToSet
    <2> QED
      BY <1>1, <1>2, <1>5, <2>2
  <1> QED
    BY <1>3, <1>4, <1>5

\* find-ip and arp-scan: the entries read where the sweep looked.
LEMMA SweepVerdictIsRight ==
  ASSUME SweepInv, SweepEndInv, sweepStep = "done", invocation.command \in {"find-ip", "arp-scan"}
  PROVE  (SweepVerdict = "yes" => Met) /\ (SweepVerdict = "no" => ~Met)
  <1> DEFINE Shown(a) == /\ entries[a] \in Owners /\ (sweep.op = "find" => entries[a] = "wanted")
                         /\ sweep.scan => a \in pinged
  <1>1. Met = \E a \in Grounds : Shown(a)
    BY DEF Met
  <1>2. SweepVerdict \in {"yes", "no"} =>
          sweepAnswer.kind = "answer" /\ (SweepVerdict = "yes" <=> sweepAnswer.addresses # {})
    BY DEF SweepVerdict, YesOr, SweepEndInv
  <1>3. ASSUME sweepAnswer.kind = "answer"
        PROVE  sweepAnswer.addresses = {a \in Grounds : Shown(a)}
    <2>1. sweepAnswer.addresses = {a \in (IF sweep.scan THEN Covered ELSE Grounds) :
                                     entries[a] \in (IF sweep.op = "find" THEN {"wanted"} ELSE Owners)}
      BY <1>3 DEF SweepInv, SweepAnswerInv
    <2>2. sweep.scan => pinged = Covered
      BY <1>3 DEF SweepInv
    <2>3. Covered \subseteq Grounds
      <3>1. scope.networks \in Seq(Networks)
        BY DEF SweepInv, IsScopeOf, Splits
      <3> QED
        BY <3>1 DEF Covered, Grounds, ToSet
    <2>4. "wanted" \in Owners
      BY DEF Owners
    <2> HIDE DEF Owners
    <2> QED
      BY <2>1, <2>2, <2>3, <2>4
  <1> HIDE DEF Shown
  <1> QED
    BY <1>1, <1>2, <1>3

\* The verdict, from which the exit code is taken, tells what the call met.
VerdictIsRight ==
  invocation.command \in Composed => (verdict = "yes" => Met) /\ (verdict = "no" => ~Met)

\* Nothing is written before a command exits, and its verdict is right from when it
\* is given.
CliInv ==
  /\ invocation \in Invocations
  /\ stage \in {"library", "parse", "call", "render", "exited"}
  /\ stage # "library" => CallOf(invocation.command)
  /\ stage \in {"parse", "call"} => verdict = "none"
  /\ stage # "exited" => documents = <<>>
  /\ stage = "render" => verdict \in {"yes", "no", "refused", "escaped"} /\ VerdictIsRight
  /\ ExitTellsTheOutcome

CommandInv == CallParts /\ CliInv

\* An invocation begins with its call fresh and nothing written.
LEMMA CommandInitially == CommandInit => CommandInv
  <1> SUFFICES ASSUME CommandInit PROVE CommandInv
    OBVIOUS
  <1>1. Calling(invocation.command)
    BY DEF CommandInit, Library
  <1>2. CallParts
    BY <1>1, PartsInitially
  <1>3. verdict = "none" /\ documents = <<>> /\ stage \in {"library", "parse"}
    BY DEF CommandInit
  <1>4. invocation \in Invocations
    <2>1. \A c \in CommandName : Library(c) \in Invocations
      BY DEF Library, Invocations
    <2>2. {"ping", "mac", "scan-ports"} \subseteq CommandName
      BY DEF CommandName, Guarded, Composed
    <2> QED
      BY <2>1, <2>2 DEF CommandInit
  <1>5. stage # "library" => CallOf(invocation.command)
    BY DEF CommandInit
  <1> QED
    BY <1>2, <1>3, <1>4, <1>5 DEF CommandInv, CliInv, ExitTellsTheOutcome

\* What a call was asked does not change, and what it met no more once it ended.
LEMMA CallOfStays ==
  ASSUME [CommandNext]_commandVars, CallOf(invocation.command)
  PROVE  CallOf(invocation.command)'
  <1>1. UNCHANGED invocation
    BY StepOfEach
  <1>2. UNCHANGED call
    BY StepOfEach DEF EchoNext, Resolve, Check, Choose, Open, OpenRefused, Probe, Outcome, Pause, ProbeRaises,
       Close, Cancel, WorkerStarts, WorkerReturnsAlone, echoVars
  <1>3. UNCHANGED write
    BY StepOfEach DEF WriteNext, OtherWrites, Validate, KernelRefuses, Unacknowledged, Replace, Create, Look,
       Displace, Confirm, List, DeleteOn, LookOn, DeleteByAddress, Removed, writeVars
  <1>4. UNCHANGED sweep
    BY StepOfEach DEF SweepNext, CacheChanges, CheckSweep, PlanSweep, PingHost, AllPinged, ReadEntries, sweepVars
  <1> QED
    BY <1>1, <1>2, <1>3, <1>4 DEF CallOf

\* A step of the command alone changes nothing its call met.
LEMMA MetStays ==
  ASSUME UNCHANGED callVars, UNCHANGED invocation
  PROVE  Met' = Met
  <1>1. /\ UNCHANGED <<sent, held, deletions, found, lookup, route, heard, cacheRead, met, line>>
        /\ UNCHANGED <<mtu, mtuAnswer, limits, tried>>
        /\ UNCHANGED <<entries, sweep, pinged, invocation>>
    BY DEF callVars, echoVars, writeVars, lookVars, scanVars, grabVars, mtuVars, sweepVars
  <1> QED
    BY <1>1 DEF Met, FirstSaid, Routed

\* A return takes from the answer of the call whether it was met.
LEMMA ReturnKeeps == CommandInv /\ Return => CliInv'
  <1> SUFFICES ASSUME CommandInv, Return PROVE CliInv'
    OBVIOUS
  <1>1. /\ stage = "call" /\ stage' = "render" /\ invocation.command \in Composed /\ CallEnded
        /\ verdict' = Verdict /\ UNCHANGED <<invocation, documents, exitCode>> /\ UNCHANGED callVars
    BY DEF Return
  <1>2. CallParts /\ CallOf(invocation.command) /\ invocation \in Invocations /\ documents = <<>>
    BY <1>1 DEF CommandInv, CliInv
  <1>3. Verdict \in {"yes", "no", "refused", "escaped"}
    BY <1>1 DEF Verdict, YesOr, PingVerdict, SetVerdict, RemoveVerdict, MacVerdict, ScanVerdict, BannerVerdict,
                MtuVerdict, SweepVerdict
  <1>4. (Verdict = "yes" => Met) /\ (Verdict = "no" => ~Met)
    <2>1. CASE invocation.command = "ping"
      BY <1>2, <2>1, PingVerdictIsRight DEF Verdict, CallParts, EchoPart
    <2>2. CASE invocation.command = "reachable"
      BY <1>1, <1>2, <2>2, EndedCall, ReachableVerdictIsRight DEF Verdict, CallParts, EchoPart
    <2>3. CASE invocation.command = "set-neighbour"
      BY <1>1, <1>2, <2>3, EndedCall, WriteVerdictIsRight DEF Verdict, CallParts, WritePart
    <2>4. CASE invocation.command = "remove-neighbour"
      <3>1. write.op = "remove"
        BY <1>2, <2>4 DEF CallOf
      <3> QED
        BY <1>1, <1>2, <2>4, <3>1, EndedCall, WriteVerdictIsRight DEF Verdict, CallParts, WritePart
    <2>5. CASE invocation.command = "mac"
      BY <1>2, <2>5, MacVerdictIsRight DEF Verdict, CallParts, LookPart
    <2>6. CASE invocation.command = "scan-ports"
      BY <1>2, <2>6, ScanVerdictIsRight DEF Verdict, CallParts, ScanPart
    <2>7. CASE invocation.command = "banners"
      BY <1>1, <1>2, <2>7, EndedCall, BannerVerdictIsRight DEF Verdict, CallParts, GrabPart
    <2>8. CASE invocation.command = "mtu"
      BY <1>1, <1>2, <2>8, EndedCall, MtuVerdictIsRight DEF Verdict, CallParts, MtuPart
    <2>9. CASE invocation.command \in {"find-ip", "arp-scan"}
      BY <1>1, <1>2, <2>9, EndedCall, SweepVerdictIsRight DEF Verdict, CallParts, SweepPart
    <2> QED
      BY <1>1, <2>1, <2>2, <2>3, <2>4, <2>5, <2>6, <2>7, <2>8, <2>9 DEF Composed
  <1>5. VerdictIsRight'
    <2>1. Met' = Met
      BY <1>1, MetStays
    <2> QED
      BY <1>1, <1>4, <2>1 DEF VerdictIsRight
  <1>6. CallOf(invocation.command)'
    BY <1>2, CallOfStays, <1>1 DEF CommandNext
  <1> QED
    BY <1>1, <1>2, <1>3, <1>5, <1>6 DEF CliInv, ExitTellsTheOutcome

\* A command the model does not look into says nothing of what it met.
LEMMA ReturnOtherKeeps == CommandInv /\ ReturnOther => CliInv'
  <1> SUFFICES ASSUME CommandInv, ReturnOther PROVE CliInv'
    OBVIOUS
  <1>1. /\ stage = "call" /\ stage' = "render" /\ invocation.command \notin Composed
        /\ verdict' \in OtherVerdicts /\ UNCHANGED <<invocation, documents, exitCode>>
    BY DEF ReturnOther
  <1>2. CallOf(invocation.command) /\ invocation \in Invocations /\ documents = <<>>
    BY <1>1 DEF CommandInv, CliInv
  <1>3. verdict' \in {"yes", "no", "refused", "escaped"}
    BY <1>1 DEF OtherVerdicts
  <1>4. VerdictIsRight'
    BY <1>1 DEF VerdictIsRight
  <1>5. CallOf(invocation.command)'
    BY <1>2, CallOfStays DEF CommandNext
  <1> QED
    BY <1>1, <1>2, <1>3, <1>4, <1>5 DEF CliInv, ExitTellsTheOutcome

\* One document in the machine-readable modes, none otherwise.
LEMMA OneDocument ==
  ASSUME documents = <<>>, NEW ok \in BOOLEAN, NEW command, Document(ok, command), UNCHANGED invocation
  PROVE  /\ Len(documents') = (IF OutputMode' = "human" THEN 0 ELSE 1)
         /\ \A i \in DOMAIN documents' :
              documents'[i].shape = OutputMode' /\ documents'[i].ok = ok /\ documents'[i].command = command
  <1> DEFINE d == [shape |-> OutputMode, ok |-> ok, command |-> command]
  <1>1. OutputMode' = OutputMode
    BY DEF OutputMode
  <1>2. d.shape = OutputMode /\ d.ok = ok /\ d.command = command
    OBVIOUS
  <1>3. documents' = IF OutputMode = "human" THEN <<>> ELSE <<d>>
    BY DEF Document
  <1> HIDE DEF d
  <1> QED
    BY <1>1, <1>2, <1>3

\* How a command exits.
LEMMA ExitKeeps ==
  ASSUME CommandInv, [CommandNext]_commandVars, stage \in {"parse", "render"}, NEW ok \in BOOLEAN, NEW command,
         NEW code, Document(ok, command), Exit(code), UNCHANGED <<invocation, verdict>>, UNCHANGED callVars,
         \/ /\ ok = TRUE /\ command = invocation.command
            /\ code = (IF verdict = "yes" THEN "ok" ELSE "notReached") /\ verdict \in {"yes", "no"}
            /\ VerdictIsRight
         \/ /\ ok = FALSE /\ code = "error"
            /\ verdict = "none" \/ (verdict = "refused" /\ ~Uncaught)
         \/ ok = FALSE /\ code \in {"notReached", "error", "other"} /\ Uncaught
  PROVE  CliInv'
  <1>1. stage' = "exited" /\ exitCode' = code /\ invocation' = invocation /\ verdict' = verdict
    BY DEF Exit
  <1>2. CallOf(invocation.command) /\ invocation \in Invocations /\ documents = <<>>
    BY DEF CommandInv, CliInv
  <1>3. CallOf(invocation.command)'
    BY <1>2, CallOfStays
  <1>4. /\ Len(documents') = (IF OutputMode' = "human" THEN 0 ELSE 1)
        /\ \A i \in DOMAIN documents' :
             documents'[i].shape = OutputMode' /\ documents'[i].ok = ok /\ documents'[i].command = command
    BY <1>1, <1>2, OneDocument
  <1>5. Met' = Met
    BY MetStays
  <1>6. Uncaught' = Uncaught /\ (Uncaught => verdict \in {"escaped", "refused"})
    BY <1>1 DEF Uncaught
  <1>7. /\ exitCode' = "ok" <=> verdict' = "yes"
        /\ verdict' = "no" => exitCode' = "notReached"
        /\ exitCode' = "notReached" => verdict' = "no" \/ Uncaught'
        /\ verdict' = "none" \/ (verdict' = "refused" /\ ~Uncaught') => exitCode' = "error"
    BY <1>1, <1>6
  <1>8. invocation'.command \in Composed => (verdict' = "yes" => Met') /\ (verdict' = "no" => ~Met')
    BY <1>1, <1>5, <1>6 DEF VerdictIsRight
  <1>9. ASSUME NEW i \in DOMAIN documents'
        PROVE  /\ documents'[i].shape = OutputMode'
               /\ documents'[i].ok = (verdict' \in {"yes", "no"})
               /\ verdict' \in {"yes", "no"} => documents'[i].command = invocation'.command
    <2>1. CASE verdict \in {"yes", "no"}
      <3>1. ok = TRUE /\ command = invocation.command
        BY <1>6, <2>1
      <3>2. (verdict' \in {"yes", "no"}) = TRUE
        BY <1>1, <2>1
      <3> QED
        BY <1>1, <1>4, <3>1, <3>2
    <2>2. CASE verdict \notin {"yes", "no"}
      <3>1. ok = FALSE
        BY <2>2
      <3>2. (verdict' \in {"yes", "no"}) = FALSE
        BY <1>1, <2>2
      <3> QED
        BY <1>4, <3>1, <3>2
    <2> QED
      BY <2>1, <2>2
  <1>10. ExitTellsTheOutcome'
    BY <1>4, <1>7, <1>8, <1>9 DEF ExitTellsTheOutcome
  <1> QED
    BY <1>1, <1>2, <1>3, <1>10 DEF CliInv

\* Every exit tells the verdict it was given.
LEMMA ExitsKeep == CommandInv /\ (Parse \/ Emit \/ Fail \/ Escape) => CliInv'
  <1> SUFFICES ASSUME CommandInv, Parse \/ Emit \/ Fail \/ Escape PROVE CliInv'
    OBVIOUS
  <1>0. /\ [CommandNext]_commandVars /\ UNCHANGED <<invocation, verdict>> /\ UNCHANGED callVars
        /\ stage \in {"parse", "render"}
    BY DEF CommandNext, Parse, Emit, Fail, Escape
  <1>1. CASE Parse
    <2>1. stage = "parse" /\ verdict = "none"
      BY <1>1 DEF Parse, CommandInv, CliInv
    <2>2. CASE Handle(TRUE)
      <3>1. Document(FALSE, "none") /\ Exit("error")
        BY <2>2 DEF Handle, CodesOf
      <3> QED
        BY <1>0, <2>1, <3>1, ExitKeeps
    <2>3. CASE ~Handle(TRUE)
      <3>1. stage' = "call" /\ UNCHANGED <<documents, exitCode>>
        BY <1>1, <2>3 DEF Parse
      <3>2. CallOf(invocation.command)'
        BY <1>0, <2>1, CallOfStays DEF CommandInv, CliInv
      <3> QED
        BY <1>0, <2>1, <3>1, <3>2 DEF CommandInv, CliInv, ExitTellsTheOutcome
    <2> QED
      BY <2>2, <2>3
  <1>2. CASE Emit
    <2>1. /\ stage = "render" /\ verdict \in {"yes", "no"}
          /\ Document(TRUE, invocation.command) /\ Exit(IF verdict = "yes" THEN "ok" ELSE "notReached")
      BY <1>2 DEF Emit
    <2>2. VerdictIsRight
      BY <2>1 DEF CommandInv, CliInv
    <2> QED
      BY <1>0, <2>1, <2>2, ExitKeeps
  <1>3. CASE Fail
    <2>1. /\ verdict = "refused" /\ ~Uncaught
          /\ Document(FALSE, invocation.command) /\ Exit("error")
      BY <1>3 DEF Fail, Uncaught, Unguarded, Guarded, Composed
    <2> QED
      BY <1>0, <2>1, ExitKeeps
  <1>4. CASE Escape
    <2>1. PICK code \in {"notReached", "error", "other"} :
            Uncaught /\ Document(FALSE, "none") /\ Exit(code)
      BY <1>4 DEF Escape, Handle, CodesOf
    <2> QED
      BY <1>0, <2>1, ExitKeeps
  <1> QED
    BY <1>1, <1>2, <1>3, <1>4

\* Every step of a command, or of its call, keeps the invariant.
LEMMA CommandKept == CommandInv /\ [CommandNext]_commandVars => CommandInv'
  <1> SUFFICES ASSUME CommandInv, [CommandNext]_commandVars PROVE CommandInv'
    OBVIOUS
  <1>1. CallParts'
    BY PartsKept DEF CommandInv
  <1>2. CASE Return
    BY <1>1, <1>2, ReturnKeeps DEF CommandInv
  <1>3. CASE ReturnOther
    BY <1>1, <1>3, ReturnOtherKeeps DEF CommandInv
  <1>4. CASE Parse \/ Emit \/ Fail \/ Escape
    BY <1>1, <1>4, ExitsKeep DEF CommandInv
  <1>5. CASE stage \in {"call", "library"} /\ UNCHANGED cliVars
    <2>1. stage # "library" => CallOf(invocation.command)'
      BY CallOfStays DEF CommandInv, CliInv
    <2> QED
      BY <1>1, <1>5, <2>1 DEF CommandInv, CliInv, cliVars, ExitTellsTheOutcome
  <1>6. CASE UNCHANGED commandVars
    <2>1. stage # "library" => CallOf(invocation.command)'
      BY CallOfStays DEF CommandInv, CliInv
    <2>2. UNCHANGED <<invocation, stage, verdict, documents, exitCode>> /\ UNCHANGED callVars
      BY <1>6 DEF commandVars, cliVars
    <2>3. Met' = Met /\ OutputMode' = OutputMode /\ Uncaught' = Uncaught
      BY <2>2, MetStays DEF OutputMode, Uncaught
    <2>4. ExitTellsTheOutcome'
      BY <2>2, <2>3 DEF CommandInv, CliInv, ExitTellsTheOutcome
    <2> QED
      BY <1>1, <2>1, <2>2, <2>3, <2>4 DEF CommandInv, CliInv, VerdictIsRight
  <1> QED
    BY <1>2, <1>3, <1>4, <1>5, <1>6 DEF CommandNext

\* A call that has not begun has nothing to answer for.
LEMMA PartsTell ==
  ASSUME CallParts
  PROVE  /\ ProbesGoWhereAsked /\ EchoAnswersAreTrue /\ SetMeansHeld /\ RemovalIsTruthful
         /\ LookupTellsWhoseAddress /\ ScanKeepsFirstAnswers /\ GreetingIsTheFirstLine
         /\ MtuIsWhereThePathEnds /\ SweepStaysInBudget /\ NotFoundMeansLookedEverywhere
  <1>1. ProbesGoWhereAsked /\ EchoAnswersAreTrue
    <2>1. EchoIdle => ProbesGoWhereAsked /\ EchoAnswersAreTrue
      BY DEF EchoIdle, EchoFresh, NoAnswer, ProbesGoWhereAsked, EchoAnswersAreTrue, PingTellsWhatCameBack,
         ReachableTellsWhetherAnyTryAnswered, TcpIsTheLastResort, OnlyTcpSocketsEscape
    <2> QED
      BY <2>1, ProbesFit, AnswersFit DEF CallParts, EchoPart
  <1>2. SetMeansHeld /\ RemovalIsTruthful
    BY DEF CallParts, WritePart, WriteIdle, WriteFresh, WriteInv, SetMeansHeld, RemovalIsTruthful
  <1>3. LookupTellsWhoseAddress
    BY NothingFoundIsTrue DEF CallParts, LookPart, LookupIdle, LookupFresh, LookInv
  <1>4. ScanKeepsFirstAnswers
    <2>1. ScanInv => ScanKeepsFirstAnswers
      BY DEF ScanInv, PortsInv, ScanAnswersInv, ScanStepInv, ScanKeepsFirstAnswers
    <2> QED
      BY <2>1 DEF CallParts, ScanPart, ScanIdle, ScanFresh, ScanKeepsFirstAnswers
  <1>5. GreetingIsTheFirstLine
    BY KeptIsTheFirstLine DEF CallParts, GrabPart, GrabIdle, GrabFresh, GreetingIsTheFirstLine
  <1>6. MtuIsWhereThePathEnds
    <2>1. MtuIdle => DOMAIN tried = {} /\ mtuAnswer.kind # "size"
      BY DEF MtuIdle, MtuFresh, NoSize
    <2> QED
      BY <2>1 DEF CallParts, MtuPart, MtuInv, MtuIsWhereThePathEnds
  <1>7. SweepStaysInBudget
    <2>1. SweepIdle => SweepInv
      BY EmptyScopeIs DEF SweepIdle, SweepFresh, NoSweepAnswer, SweepInv, SweepAnswerInv
    <2> QED
      BY <2>1, SweepIsBounded DEF CallParts, SweepPart
  <1>8. NotFoundMeansLookedEverywhere
    BY MissLookedEverywhere DEF CallParts, SweepPart, SweepIdle, SweepFresh, NoSweepAnswer,
                                NotFoundMeansLookedEverywhere
  <1> QED
    BY <1>1, <1>2, <1>3, <1>4, <1>5, <1>6, <1>7, <1>8

\* The invariant of a command, and of the call it makes, holds of every run.
THEOREM CommandInvariance == CommandSpec => []CommandInv
  BY CommandInitially, CommandKept, PTL DEF CommandSpec

\* What each call promises by itself it promises to whoever makes it: the command
\* line and a program alike (cli.py over api.py, static_neighbours.py,
\* neighbours.py, portscan.py, banner.py, mtu.py and scan.py).
THEOREM CallsKeepTheirPromises ==
  CommandSpec =>
    [](/\ ProbesGoWhereAsked /\ EchoAnswersAreTrue /\ SetMeansHeld /\ RemovalIsTruthful
       /\ LookupTellsWhoseAddress /\ ScanKeepsFirstAnswers /\ GreetingIsTheFirstLine
       /\ MtuIsWhereThePathEnds /\ SweepStaysInBudget /\ NotFoundMeansLookedEverywhere)
  BY CommandInvariance, PartsTell, PTL DEF CommandInv

\* CommandLine.ExitTellsTheOutcome: 0 exactly where the call succeeded, 1 for
\* every "no", 2 for every refusal reported and every usage error; the answers of
\* the composed commands are what their calls met; and where an errno mapped to 1
\* or 2 blurs the code, the one document still tells an answer from a failure
\* (_emit, _fail, _exception_handler).
THEOREM ExitCodesTellTheOutcome == CommandSpec => []ExitTellsTheOutcome
  <1>1. CommandInv => ExitTellsTheOutcome
    BY DEF CommandInv, CliInv
  <1> QED
    BY <1>1, CommandInvariance, PTL

=============================================================================
