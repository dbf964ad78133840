----------------------------- MODULE CommandLine -----------------------------
(***************************************************************************)
(* The ipscout command (src/ipscout/cli.py) over the operations it calls,  *)
(* and the same operations called from a program.                          *)
(*                                                                         *)
(* A command reads its arguments, makes one call, writes one report, and   *)
(* leaves with an exit code.  The calls of EchoCall, StaticNeighbour,      *)
(* HardwareLookup, PortScan, BannerGrab, PathMtu and Sweep run step by     *)
(* step as those modules have them; what the other commands call ends here *)
(* in one of the ways its code allows.                                     *)
(***************************************************************************)
EXTENDS EchoCall, StaticNeighbour, HardwareLookup, PortScan, BannerGrab, PathMtu, Sweep

VARIABLES
  invocation,  \* who asks, which command, and the flags before it
  stage,       \* "parse", "call", "render", "exited"; "library" outside a command
  verdict,     \* how the call ended, as the command sees it
  documents,   \* JSON documents on stdout: [shape, ok, command]
  exitCode     \* "ok" (0), "notReached" (1), "error" (2), or "other", a number above 2

cliVars == <<invocation, stage, verdict, documents, exitCode>>
callVars == <<echoVars, writeVars, lookVars, scanVars, grabVars, mtuVars, sweepVars>>
commandVars == <<cliVars, callVars>>

Composed ==
  {"ping", "reachable", "set-neighbour", "remove-neighbour", "mac", "scan-ports", "banners", "mtu",
   "find-ip", "arp-scan"}
\* Guarded: IPScoutError and ValueError are caught and reported by the command.
Guarded ==
  (Composed \ {"reachable"}) \cup
  {"traceroute", "resolve", "gateway", "snmp-system", "wake", "observe-dhcp"}
Unguarded ==
  {"reachable", "ping-many", "reverse-dns", "interfaces", "neighbours", "subnet", "capabilities", "info"}
\* Those whose answer is never "no".
Statements == {"resolve", "interfaces", "set-neighbour", "wake", "capabilities", "info"}
CommandName == Guarded \cup Unguarded

\* The flags and arguments Click or the command itself refuses are "wrong".
Invocations ==
  [command : CommandName, json : BOOLEAN, bare : BOOLEAN, arguments : {"fit", "wrong"}]
Library(command) == [command |-> command, json |-> FALSE, bare |-> FALSE, arguments |-> "fit"]

\* OutputMode.from_argv: --json-bare wins, as an error may need a shape before
\* the two are refused together.
OutputMode ==
  IF invocation.bare THEN "bare" ELSE IF invocation.json THEN "envelope" ELSE "human"

-----------------------------------------------------------------------------
\* The one call an invocation makes; the other components are not used.

EchoIdle  == call = [kind |-> "none"] /\ step = "idle" /\ EchoFresh
WriteIdle == write = [op |-> "none"] /\ writeStep = "idle" /\ WriteFresh([l \in Links |-> "none"])
LookupIdle == lookup = [target |-> "none"] /\ lookStep = "idle" /\ LookupFresh
ScanIdle  == scan = [method |-> "none"] /\ scanStep = "idle" /\ ScanFresh
GrabIdle  == grab = [op |-> "none"] /\ grabStep = "idle" /\ GrabFresh
MtuIdle   == mtu = [platform |-> "none"] /\ mtuStep = "idle" /\ limit = 0 /\ limits = {} /\ MtuFresh
SweepIdle == sweep = [op |-> "none"] /\ sweepStep = "idle" /\ SweepFresh

Calling(command) ==
  /\ IF command \in {"ping", "reachable"} THEN EchoInit ELSE EchoIdle
  /\ IF command \in {"set-neighbour", "remove-neighbour"} THEN WriteInit ELSE WriteIdle
  /\ IF command = "mac" THEN LookupInit ELSE LookupIdle
  /\ IF command = "scan-ports" THEN ScanInit ELSE ScanIdle
  /\ IF command = "banners" THEN GrabInit ELSE GrabIdle
  /\ IF command = "mtu" THEN MtuInit ELSE MtuIdle
  /\ IF command \in {"find-ip", "arp-scan"} THEN SweepInit ELSE SweepIdle

\* The call is the one the command makes: blocking, raising, its numbers
\* already checked by the option types (_Declared).
CallOf(command) ==
  /\ command \in {"ping", "reachable"} =>
       /\ call.kind = command /\ call.mode = "sync" /\ call.bad = "none"
       /\ command = "ping" => call.raising
       /\ command = "reachable" => call.family = "any"
  /\ command = "set-neighbour" => write.op = "set"
  /\ command = "remove-neighbour" => write.op = "remove"
  /\ command = "find-ip" => sweep.op = "find" /\ sweep.named # "both"
  /\ command = "arp-scan" => sweep.op = "arp" /\ sweep.named # "both"

CommandInit ==
  /\ verdict = "none" /\ documents = <<>> /\ exitCode = "none"
  /\ \/ /\ stage = "library"
        /\ \E command \in {"ping", "mac", "scan-ports"} :
             invocation = Library(command) /\ Calling(command)
     \/ /\ stage = "parse"
        /\ invocation \in Invocations
        /\ Calling(invocation.command) /\ CallOf(invocation.command)

CallNext ==
  \/ EchoNext /\ UNCHANGED <<writeVars, lookVars, scanVars, grabVars, mtuVars, sweepVars>>
  \/ WriteNext /\ UNCHANGED <<echoVars, lookVars, scanVars, grabVars, mtuVars, sweepVars>>
  \/ LookupNext /\ UNCHANGED <<echoVars, writeVars, scanVars, grabVars, mtuVars, sweepVars>>
  \/ ScanNext /\ UNCHANGED <<echoVars, writeVars, lookVars, grabVars, mtuVars, sweepVars>>
  \/ GrabNext /\ UNCHANGED <<echoVars, writeVars, lookVars, scanVars, mtuVars, sweepVars>>
  \/ MtuNext /\ UNCHANGED <<echoVars, writeVars, lookVars, scanVars, grabVars, sweepVars>>
  \/ SweepNext /\ UNCHANGED <<echoVars, writeVars, lookVars, scanVars, grabVars, mtuVars>>

-----------------------------------------------------------------------------
\* Output: one JSON document in the machine-readable modes, text otherwise.
Document(ok, command) ==
  documents' = IF OutputMode = "human" THEN documents
               ELSE Append(documents, [shape |-> OutputMode, ok |-> ok, command |-> command])
Exit(code) == stage' = "exited" /\ exitCode' = code

\* Mutated form: a usage error has no code of its own.
CodesOfErrno(usage) == {"notReached", "error", "other"}
\* Click's code for a usage error, else what get_system_exit_code makes of the
\* exception: an errno where it has one, 1 where it has none, and so the code of
\* "no" or of an error as well.
CodesOf(usage) == IF usage THEN {"error"} ELSE {"notReached", "error", "other"}

\* _exception_handler
Handle(usage) == Document(FALSE, "none") /\ \E code \in CodesOf(usage) : Exit(code)

\* What is refused before any call: by OutputMode.from_flags, by the types of the
\* options, and by cli_mac and cli_find_ip of flags that do not go together.
BothShapes == invocation.json /\ invocation.bare
BadArgument == invocation.arguments = "wrong"
FallsBackFromNothing == invocation.command = "mac" /\ lookup.fallback /\ ~lookup.active
NetworkUnswept == invocation.command = "find-ip" /\ ArgumentsRefused

Parse ==
  /\ stage = "parse"
  /\ IF BothShapes \/ BadArgument \/ FallsBackFromNothing \/ NetworkUnswept
       THEN Handle(TRUE)
       ELSE stage' = "call" /\ UNCHANGED <<documents, exitCode>>
  /\ UNCHANGED <<invocation, verdict>> /\ UNCHANGED callVars

\* What each command makes of its answer: "yes", "no", or what was raised.
YesOr(otherwise, yes) == IF yes THEN "yes" ELSE otherwise

PingVerdict ==
  CASE answer.kind = "result"  -> YesOr("no", answer.yes)
    [] answer.kind = "escaped" -> "escaped"
    [] OTHER                   -> "refused"
SetVerdict == YesOr("refused", writeAnswer = "set")
RemoveVerdict == IF writeAnswer = "raised" THEN "refused" ELSE YesOr("no", writeAnswer = "removed")
MacVerdict == IF found.kind # "answer" THEN "refused" ELSE YesOr("no", found.mac # NoMac)
ScanVerdict ==
  IF scanAnswer = "raised" THEN "refused" ELSE YesOr("no", \E port \in AskedPorts : ports[port] = "open")
BannerVerdict == YesOr("no", banner = "greeted")
MtuVerdict == IF mtuAnswer.kind = "raised" THEN "refused" ELSE YesOr("no", mtuAnswer.kind = "size")
SweepVerdict == IF sweepAnswer.kind = "raised" THEN "refused" ELSE YesOr("no", sweepAnswer.addresses # {})

Verdict ==
  CASE invocation.command = "ping"             -> PingVerdict
    [] invocation.command = "reachable"        -> YesOr("no", answer.yes)
    [] invocation.command = "set-neighbour"    -> SetVerdict
    [] invocation.command = "remove-neighbour" -> RemoveVerdict
    [] invocation.command = "mac"              -> MacVerdict
    [] invocation.command = "scan-ports"       -> ScanVerdict
    [] invocation.command = "banners"          -> BannerVerdict
    [] invocation.command = "mtu"              -> MtuVerdict
    [] OTHER                                   -> SweepVerdict

CallEnded == \E at \in {step, writeStep, lookStep, scanStep, grabStep, mtuStep, sweepStep} : at = "done"

Return ==
  /\ stage = "call" /\ invocation.command \in Composed /\ CallEnded
  /\ verdict' = Verdict /\ stage' = "render"
  /\ UNCHANGED <<invocation, documents, exitCode>> /\ UNCHANGED callVars

\* Every other command, by how its call may end.
OtherVerdicts ==
  {"yes", "refused", "escaped"} \cup (IF invocation.command \in Statements THEN {} ELSE {"no"})

ReturnOther ==
  /\ stage = "call" /\ invocation.command \notin Composed
  /\ verdict' \in OtherVerdicts
  /\ stage' = "render"
  /\ UNCHANGED <<invocation, documents, exitCode>> /\ UNCHANGED callVars

\* _emit, then ctx.exit(EXIT_NOT_REACHED) for a "no".
Emit ==
  /\ stage = "render" /\ verdict \in {"yes", "no"}
  /\ Document(TRUE, invocation.command)
  /\ Exit(IF verdict = "yes" THEN "ok" ELSE "notReached")
  /\ UNCHANGED <<invocation, verdict>> /\ UNCHANGED callVars

\* _fail
Fail ==
  /\ stage = "render" /\ verdict = "refused" /\ invocation.command \in Guarded
  /\ Document(FALSE, invocation.command)
  /\ Exit("error")
  /\ UNCHANGED <<invocation, verdict>> /\ UNCHANGED callVars

\* What no command catches: an OSError, and any failure of those that catch none.
Uncaught == verdict = "escaped" \/ (verdict = "refused" /\ invocation.command \in Unguarded)

\* run_cli hands what escaped to the handler.
Escape ==
  /\ stage = "render" /\ Uncaught
  /\ Handle(FALSE)
  /\ UNCHANGED <<invocation, verdict>> /\ UNCHANGED callVars

CommandNext ==
  \/ stage \in {"call", "library"} /\ CallNext /\ UNCHANGED cliVars
  \/ Parse \/ Return \/ ReturnOther \/ Emit \/ Fail \/ Escape

CommandSpec == CommandInit /\ [][CommandNext]_commandVars

-----------------------------------------------------------------------------
\* What a composed call met on the network or in the kernel, whatever it answered.
Met ==
  CASE invocation.command \in {"ping", "reachable"} -> \E i \in DOMAIN sent : Timed(sent[i].outcome)
    [] invocation.command = "set-neighbour" -> held
    [] invocation.command = "remove-neighbour" -> deletions > 0
    [] invocation.command = "mac" ->
         found.mac # NoMac /\ (lookup.strict => ~Routed(route))
         /\ found.mac \in {heard} \cup cacheRead
    [] invocation.command = "scan-ports" ->
         \E port \in AskedPorts : FirstSaid(port) = "open"
    [] invocation.command = "banners" -> line # <<>>
    [] invocation.command = "mtu" ->
         IF mtu.platform = "linux" THEN mtuAnswer.size \in limits \ {0}
                                   ELSE \E i \in DOMAIN tried : tried[i].fits
    [] invocation.command \in {"find-ip", "arp-scan"} ->
         \E a \in Grounds :
           /\ entries[a] \in Owners /\ (sweep.op = "find" => entries[a] = "wanted")
           /\ sweep.scan => a \in pinged

\* What a script can take from a run.  Exit 0: the call was made and, for the
\* composed commands, met what was asked for; an answer of "no" exits 1 and the
\* call met none of it; a refusal the command reports exits 2, and so does every
\* usage error, whatever the errno mapping would make of it.  The mapping may
\* give what escapes 1 or 2 too, never 0, so that 1 alone does not say that an
\* answer was reached.  The one document of a machine-readable run does: it comes
\* in the shape asked for and is an answer, naming its command, exactly where
\* there was one (_emit, _fail, _exception_handler).
ExitTellsTheOutcome ==
  stage = "exited" =>
    /\ exitCode = "ok" <=> verdict = "yes"
    /\ verdict = "no" => exitCode = "notReached"
    /\ exitCode = "notReached" => verdict = "no" \/ Uncaught
    /\ verdict = "none" \/ (verdict = "refused" /\ ~Uncaught) => exitCode = "error"
    /\ invocation.command \in Composed => (verdict = "yes" => Met) /\ (verdict = "no" => ~Met)
    /\ Len(documents) = (IF OutputMode = "human" THEN 0 ELSE 1)
    /\ \A i \in DOMAIN documents :
         /\ documents[i].shape = OutputMode
         /\ documents[i].ok = (verdict \in {"yes", "no"})
         /\ verdict \in {"yes", "no"} => documents[i].command = invocation.command

=============================================================================
