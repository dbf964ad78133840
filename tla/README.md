# ipscout: a verification of its core in TLA+

ipscout is a Python library and command line that asks networks questions: it
pings, traces routes, sweeps subnets, reads the kernel's neighbour and route
tables, watches DHCP exchanges, grabs banners, scans ports and reads SNMP. Most
of its modules ask one question of the operating system and parse the answer.
The parts that are hard to get right are the ones that wait: several calls
share one ICMP socket, a thread reads a capture while other threads wait for
what it hears, and a pool of tasks works through a list while any of them may
fail or be cancelled. The others are hard for what changes between two of their
questions: a table others write too, a path whose limit moves, a peer that
dribbles. This directory models both kinds and the command line that calls them,
checks them with TLC and proves their main safety properties with TLAPS.

Paths below are relative to the repository; the package is `src/ipscout/`.

## 1. Inventory

### The waiting core

**Echo contract** (`ports.py`). `EchoTransport.probe` / `AsyncEchoTransport.probe`
take a sequence number, a timeout and an optional hop limit and return an
`EchoResult`: an echo reply, the router that returned a Time Exceeded, or
nothing. Correct when every probe ends, once, and an answer is an answer to
that very probe. Used by `service.py` (ping), `traceroute.py`, `mtu.py`, `scan.py`.

**POSIX echo transports** (`transport_posix.py`). State: one ICMP socket (raw, or
the unprivileged "ping" datagram socket), its hop-limit option, the kernel's
datagram queue and, on Linux, its error queue. The synchronous transport has one
probe at a time; the asynchronous one adds a table of waiting probes by payload
token, a future for each and a reader callback on the event loop. Operations:
`probe`, the reader callback, `close`/`aclose`. Hard: packets arrive between any two
system calls; an error about probe A makes the send of probe B fail; routers
quote too little to tell probes apart; replies duplicate; the timer and the
answer race; every probe shares the hop-limit option. Correct when no answer is
credited to another probe, none is delivered twice, each probe leaves with its
own hop limit, errors never pile up, and a reply that arrived is not missed.

**DHCP session** (`dhcp.py`, captures in `dhcp_linux.py`, `dhcp_macos.py`,
`dhcp_windows.py`). State: the record of distinct offers and when the newest was
first seen, the flags *stopping* and *finished*, a failure to hand over, the
answer of `result()`. A daemon thread reads the capture; other threads call
`result()`, which waits for a quiet period, iterate `offers()`, or leave the
`with` block, which joins the thread with a timeout and closes the capture. Hard:
lock released between a decision and its use, sleeping callers whose wake-up time
has changed, a capture that dies or never returns, close racing a read. Correct
when the record is what the frames said, no waiter oversleeps or is held past the
window, a failure is never taken for a complete answer, and the capture (which
holds the interface promiscuous) is always released.

**Worker pool** (`pool.py`) and the sweeps over it (`api.py`: `aping_many`,
`ascan_ports`, `agrab_banners`, `aread_snmp_system`). State: one iterator, one list of
results, as many tasks as the limit allows. Hard: interleaving around each
`await`, one item raising, cancellation half-way. Correct when a call that returns
has every item exactly once, and one that is cancelled starts no more.

### The conversations

**Probe service, traceroute, path MTU, subnet sweep** (`service.py`,
`traceroute.py`, `mtu.py`, `scan.py`, `subnet.py`). Sequences of probes over any
contract-keeping transport; state is local to a call. Hard: late answers of
earlier probes, stopping rules, an oracle that changes while it is bisected, an
address budget over several networks.

**Windows echo transport** (`transport_windows.py`). An ICMP handle used from a
thread pool. Hard: `aclose` closes the handle before the pool is shut down.

**TCP echo transport** (`transport_tcp.py`). A connection attempt as a probe.

**SNMP** (`snmp.py`, `snmpber.py`). One UDP socket, a request id per question, asking
again with fewer values, one deadline over all rounds. Hard: a reply to an
earlier question arriving during a later one; socket errors queued among replies.

**Banner grabs** (`banner.py`, `deadline.py`). Resolve, connect, read under one deadline,
against a peer that dribbles.

**Port scan** (`portscan.py`, `tcpsyn.py`). Connect scans over the pool, and a half-open
scan on raw sockets. Hard: retransmitted and contradicting answers, the second
socket refused after the first was opened.

**Static neighbour entries** (`static_neighbours.py` and its per-platform backends).
Write to the kernel's table and confirm by reading it back; others write it too.

### The questions

**Codecs** (`packet.py`, `bootp.py`, `bpf.py`, `snmpber.py`, `tcpsyn.py`, `netlink.py`, `bsdroute.py`,
`arp.py`): stateless; correct when they agree with a reference definition.
**Neighbour cache, routes, interfaces, name resolution, leases, Wake-on-LAN**
(`neighbours*.py`, `routes*.py`, `interfaces*.py`, `winapi.py`, `unixio.py`, `resolve.py`,
`leases_linux.py`, `wol.py`): one exchange with the kernel or one file, no state kept.
**Factory, models, errors, output, command line** (`factory.py`, `models.py`, `errors.py`,
`serialize.py`, `sockerr.py`, `cli.py`, `typed_click.py`): choices, validated records, wording.

### How they interact

    cli ── api ──┬── pool ── (one item) ──┬── service / traceroute / mtu / scan
                 │                        ├── portscan, banner, snmp
                 │                        └── transports (ports.EchoTransport)
                 ├── dhcp.DhcpSession ── thread ── capture (ports.PacketCapture)
                 └── neighbours, routes, interfaces, leases, wol

The callers see a transport only through `ports.py`, so the contract is stated as
an abstract specification of its own and each transport is to be shown to
implement it.

## 2. Modules

| module | models | role |
| --- | --- | --- |
| `IcmpAnswers` | what one ICMP socket can deliver, `_concerns` | operators, no state |
| `IcmpAnswersProofs` | | lemmas about those operators, shared by both transports |
| `EchoContract` | the promise of `ports.py` | abstract specification |
| `AsyncPosixEcho` | `AsyncPosixEchoTransport` | detailed specification, implements `EchoContract` |
| `AsyncPosixEchoProofs` | | theorems about it |
| `PosixEcho` | `PosixEchoTransport`: one blocking `probe()` at a time | state and actions, no `Next` of its own |
| `ProbeRun` | `run_ping`, `_walk` over `PosixEcho` | specification; implements `EchoContract` |
| `ProbeRunProofs` | | theorems about it |
| `DhcpSession` | `dhcp.DhcpSession` over a capture | specification |
| `DhcpSessionProofs` | | theorems about it |
| `GatherBounded` | `pool.gather_bounded` | specification |
| `GatherBoundedProofs` | | theorems about it |
| `Host` | the interfaces and address families of the host | constants shared by the rest |
| `Resolve` | `resolve.py`: from a target as written to one address | operators, no state |
| `EchoCall` | `ping`, `is_reachable`, their asyncio twins, `factory.py`, the TCP and Windows transports | specification |
| `StaticNeighbour` | `set_neighbour`, `remove_neighbour` on three platforms | specification |
| `HardwareLookup` | `lookup_mac`, `get_mac_address`, active resolution, the route query | specification |
| `PortScan` | connect scan and half-open scan | specification |
| `BannerGrab` | one host of a banner grab | specification |
| `PathMtu` | `path_mtu` | specification |
| `Sweep` | `arp_scan`, `find_ip_by_mac` | specification |
| `CallProofs` | | theorems about the seven from `EchoCall` to `Sweep`, a section each |
| `SnmpRead` | the system group of one agent | specification |
| `SnmpReadProofs` | | theorems about it |
| `CommandLine` | `cli.py` over the seven specifications from `EchoCall` to `Sweep` | composition: EXTENDS them |
| `CommandLineProofs` | | theorems about it, over `CallProofs` |
| `MC*` | | small instances for TLC |

In the specifications the definitions commented *Mutant of X* or *Mutated form* are deliberate mistakes
in `X`, each breaking one property, kept so that it stays visible which part of the
code a property depends on. No specification uses them.

### IcmpAnswers

A packet is a record of what the program can compare (kind, sequence number,
payload token, whether identifier and destination are its own) plus `about`, which
the program cannot see: the probe that really caused it. `About(p)` is everything the
network may truthfully say about probe `p`, with quotes cut short of the token
included; `Strangers` is other processes' traffic with the same sequence numbers.
`QueueableErrors` and `Receivable` say which of those a datagram or a raw socket sees,
and `Concerns` is `_concerns`, the code's matching rule. One coincidence is left out
on purpose: a stranger who drew the same random 16-bit identifier for the same
destination *and* whose quote is cut short of the payload.

### AsyncPosixEcho

| state | code |
| --- | --- |
| `inbox`, `errQueue`, `sockErr` | the socket's receive queue, error queue and pending errno |
| `hop`, `sentWith` | the socket's hop-limit option, and what each datagram left with |
| `waiters`, `answer` | `_waiters` and the futures in it |
| `installed`, `closed` | `_reader_installed`, the socket being closed |
| `stage`, `result` | where each `probe()` coroutine is and what it returned |
| `running`, `step`, `attempt`, `sawError` | who has the event loop, its next system call, `_send`'s loop counter, whether the drain found anything |

`running` makes the event loop explicit: a coroutine or the callback that has the loop
keeps it until it awaits or returns, so nothing else on the loop runs in between;
the kernel does not wait, so `DatagramArrives` and `ErrorArrives` are enabled between any
two system calls. `Begin` is the head of `probe()` up to the drain; `ReadError` one
`recvmsg(MSG_ERRQUEUE)` and the settling of its entry; `Register`, `SendAccepted`,
`SendRefusedByError`, `SendRefusedLocally`, `Retry`, `SendFailed` are the send with its one retry;
`Wake`, `Timeout` and `Cancel` end the `await`, each including the `finally` clause;
`ReaderCalled`, `ReaderDrained`, `Receive` and `ReaderReturns` are `_on_readable`.
The code collects the queued errors and settles them when the queue is empty; the
model settles each as it is read, which is the same because nothing that reads or
writes a future can run in between.

### PosixEcho and ProbeRun

The same kernel variables, and the blocking call that is `running`:

| state | code |
| --- | --- |
| `step` | the next system call of `probe()`: `clear`, `resend` and `inquire` are `_take_errors` before the send, after a refused one and after a receive that raised; `send`, `recv` |
| `attempt`, `sawError`, `mine` | `_send`'s loop counter; whether the drain in progress found anything; the first error in it that `_concerning` picks |
| `stage`, `result` | where each call is and what it returned |
| `cause` | history: the packet that ended a wait, whether or not it was an answer |
| `outcomes`, `over` | `results` of `run_ping`, `hops` of `_walk`; the call returned |

`ReadError` is one `recvmsg(MSG_ERRQUEUE)`; `Receive` one `recvfrom` with `_answer_in`;
`ReceiveRaises`, `ErrorEndsWait` and `WaitGoesOn` are the `except OSError` arm of `_await`; `TimeUp` is
either way its deadline ends it. `SocketFails` is an errno with nothing behind it in the queue, which the
code takes as the end of the wait. A probe that was given up leaves its late answers to the next
one, since the socket is the same: that is what `OwnOutcomes` and `WaitEndsForItsOwnReason` are about.
`ProbeRun` composes the transport with its callers: a run of probes 1..`Last`, each with
its number as sequence and, in a walk, as hop limit; `RecordOutcome` appends what the probe
returned and decides whether the run is over. The pacing of `run_ping` is left out.

### DhcpSession

What runs under the session's condition variable is one step; every unlocked read
or write of a shared field is a step of its own. `now` is the time since the
session was entered. `reader` is where `_read_until_done` is; `caller[c]` where each
thread in `result()` is, with `wakeAt` the end of its `wait(timeout)`; `stream[i]` where
each `offers()` iterator is, with `yielded` its index; `owner` the thread of the `with`
block, in `__enter__` or `stop()`. `heard` is a history variable: every offer to this machine
with the time it was absorbed. `died` and `gaveUp` are histories too: `receive()` raised;
`stop()`'s join timed out. Stopping is modelled for the thread that runs the `with`
block, up to `MaxStops` times; the captures are modelled by what `receive()` can do: a
frame, nothing, an exception, or never coming back.

### GatherBounded

Items are 1..Total in the caller's order; `taken` is the iterator's position, `holding`
what each worker awaits, `results` the list in completion order. `asked` and `outcome`
model `asyncio.gather` from outside: the first exception is its outcome, the other
tasks go on, and cancelling the caller cancels the tasks that are still alive
while the gathering is pending.

### Host and Resolve

A target is a record of what it is written as: blank, a name or a literal, its family, whether it is
link-local, and the zone after its `%`, which may be one no interface can have. `ResolveOne` is `resolve_one`:
refusals before the resolver is asked, the zone as written or else the resolver's scope, duplicates
dropped, and a link-local address without a zone refused. It yields `NoAddress` for every refusal.

### EchoCall

| state | code |
| --- | --- |
| `call` | the arguments; sync or awaited; platform; whether errors are raised |
| `address`, `asked` | what `resolve_one` gave, and every lookup made (history) |
| `legs`, `method`, `transport` | the methods still to try, and the transport that is open |
| `outcomes`, `sent` | the results over this transport; every probe with its method and address (history) |
| `worker` | the thread of the Windows pool, which goes on when its call is cancelled |

`Open` is `create_*_transport`, with every refusal as an outcome; `Cancel` may come at every `await`.
The transports' insides are in `AsyncPosixEcho` and `PosixEcho`; here a probe ends in what those contracts allow.

### StaticNeighbour, HardwareLookup, Sweep

All three depend on the kernel's neighbour table while others write it. In `StaticNeighbour` `rows` holds the
entry of one address on each link, and `OtherWrites` changes it between any two messages. `held` says that the entry stood
in the table at some moment after the kernel had acknowledged it (an acknowledged write, `Accepted`, may leave it or not, which is the case
`_confirmed` is there for), `bare` and `deletions` what links were seen without an entry and how many entries the call deleted. Linux replaces in one message, Windows creates, displaces and
creates again, macOS looks, displaces and adds; each message is a step that may be refused, and an
acknowledgement may be missing whether the change was made or not. `HardwareLookup` identifies a hardware address by
who holds it on which link, so that an answer from the wrong link shows. `Sweep` gives every address of every network an
owner, lets probes be lost and entries expire, and charges networks against one budget in the order the
host reports them.

### PortScan, BannerGrab, PathMtu

`PortScan`: `met[port]` is everything the target itself said of a port, in order; packets of strangers and of other
flows are heard too. `BannerGrab`: `stream` is all the peer sent, `pending` what was not read, `line` what was kept; a reset
makes the next read raise, whatever is pending. `PathMtu`: `limit` is what the path takes now and `limits` all it
took during the call; `Fits` is what may be concluded about a size, which errs towards a fit on Windows and towards a refusal on
the BSDs; `tried` lists the sizes asked.

### SnmpRead

One conversation: the lookup in a thread, the connected socket, `wanted` shrinking each time an SNMPv1 agent names a value it
lacks, a new random request id per round, the queue of datagrams and socket errors in arrival order, one deadline.
The agent lacks a fixed set of values; what arrives may be its true answer, any answer that breaks the protocol without
claiming to lack what it has, octets that do not parse, or another read's reply.

### CommandLine

EXTENDS the seven call specifications. An invocation reads its arguments, makes one call, whose module then runs
step by step while the other modules stay idle, writes one report and leaves with an exit code. Ten commands are composed this
way; for the others the call ends in one of the ways their code allows. `documents` is what reached the output, `verdict` what
the answer means to the command. `exitCode` is 0, 1, 2 or some other number; `CodesOf` is what the handler of escaped exceptions may choose: 2 for a usage
error, by the errno mapping anything but 0 otherwise, the codes of the command itself included. For the commands that are not composed nothing is said of what
their calls met, since the model does not have it. Three calls are also made from a program (`Library`), where arguments no option type has checked occur.

## 3. Runs

Each passing run completes its state space.

| run | instance | checks |
| --- | --- | --- |
| `async_echo_shared` | 2 probes with the *same* sequence number and hop limit, raw socket, 2 arrivals, timers never due | `TypeOK`, `NoTheft`, `FirstAnswerStands`, `ReplyEndsWait` |
| `async_echo_walk` | 2 probes numbered as a walk numbers them, hop limits 1 and 2, datagram socket, 2 arrivals | `HopLimitIsOwn`, `ImplementsContract`, `ErrorsGetRead` |
| `dhcp_session` | 1 caller asking twice, 1 iterator, 2 addresses, 2 offers, window 2, settle 1, join 1, clock to 3, 2 stops | `TypeOK`, `AsleepUntilItMatters`, `RecordsFirstSightings`, `StreamIsWhole`, `CaptureIsOwned`, `FailureIsHeard`, `ResultReturns`, `StopReleases` |
| `pool_sweep` | 3 workers, 4 items | `TypeOK`, `WorkedOnce`, `ReturnsEveryItem`, `CancelStopsTheSweep`, `CallEnds` |
| `probe_walk` | a walk of 2 hops over the blocking transport, raw socket with an error queue, 2 arrivals | `TypeOK`, `OwnOutcomes`, `NeverPastTheTarget`, `WaitEndsForItsOwnReason`, `ImplementsContract`, `RunEnds` |
| `snmp_read` | 3 values of which 2 can be malformed, both versions, request ids 1..3 (so that two rounds may draw the same), timeout 2, one arrival waiting | `TypeOK`, `ReportsWhatTheAgentHas`, `ReadEnds` |
| `command_line` | every command on a host with two links; see the bounds below | `ProbesGoWhereAsked`, `EchoAnswersAreTrue`, `SetMeansHeld`, `RemovalIsTruthful`, `LookupTellsWhoseAddress`, `ScanKeepsFirstAnswers`, `GreetingIsTheFirstLine`, `MtuIsWhereThePathEnds`, `SweepStaysInBudget`, `NotFoundMeansLookedEverywhere`, `ExitTellsTheOutcome` |
| `ping_expired_hop` | `EchoCall` with two echoes | `ReachedMeansReply` (violated) |
| `next_hop` | `HardwareLookup` with a link-local router | `NextHopIsTheRouter` (violated) |
| `async_echo_default_ttl` | one hop-limited probe, one with `ttl=None` | `DefaultIsSystem` (violated) |
| `dhcp_recorded_when_quiet` | as its cfg | `RecordedWhenQuiet` (violated) |
| `dhcp_repeats_answer` | as its cfg | `RepeatsItsAnswer` (violated) |

What they show.

* *No theft.* A packet that resolves a probe is about that probe. The only exception
  is the one the headers force: a quote without the token, about an equally numbered
  probe nobody waits for any more or that could not have drawn it. Ambiguity between two
  waiting probes resolves neither.
* *First answer stands.* Duplicates, replies with errors, and answers after the wait
  never set a future twice, which would raise in the callback and lose the datagrams
  behind it.
* *A reply ends the wait by itself.* With timers that never come due, a reply the kernel
  holds still ends its probe's wait, through any interleaving with errors and sends.
* *The contract.* With distinct sequence numbers, what every caller in the package
  uses, the transport implements `EchoContract`, liveness included.
* *The DHCP session* neither loses, masks nor leaks: see the comments in the module. The exact
  conditions matter: with a reader that outlives the join timeout (`gaveUp`), iterators may
  end early and the capture is closed under the reader, which is what the code accepts.
* *The blocking transport* gives each hop what its own probe was answered, however late the others' answers
  come, lets nobody else's packet end a wait, implements `EchoContract` under callers that number their
  probes in order, and a walk sends nothing behind the target and ends.
* *The pool* hands out and records every item exactly once; a call that returns left nothing running; a cancelled call hands out
  nothing more, unless an item had already raised, in which case the other workers were never told.
* *An SNMP read* that answers reports exactly what its agent has of the values asked for, unless two rounds drew the same request id;
  and it ends, with an answer or at its deadline, whatever keeps arriving.
* *Every command* says what its call met: probes leave for the address and with the zone the target names, over every method,
  and TCP is tried only after ICMP; an entry reported as set stood in the table after the kernel had acknowledged it, and not because it had; one reported as removed was deleted by this call; a hardware
  address carries the right scope and method; a port, a banner and a path limit are what was met first, in full or last; a sweep
  never touches more addresses than its budget and says what it left out; "not found" follows a look at all the ground covered. A command that was answered exits 0 or 1 by what its call met, a usage
  error or a refusal it reports exits 2, and a failure never exits 0. Exit 1 by itself does not prove an answer: what escapes a command leaves
  by the errno mapping, which may give 1 or 2 as well. The document of a machine-readable run is an answer exactly where there was one.

**Bounds and why they are enough.** Two probes are what interference needs: every
property of the echo transport relates at most two, and the theorems of section 5 lift the
safety ones to any number. Two arrivals allow an error and a reply, a duplicate, or an error
about each probe, in every order and at every point; a queue of two holds both. A walk of two hops has the
interesting case, an answer to the first read by the second. (With three hops the run passes too, in
two minutes.) For the DHCP
session, a window of 2 with a settle time of 1 has every case: quiet before the window closes,
an offer that pushes the quiet period past the window, the window closing in silence; two offers
of two addresses are a new one after another or a retransmission; two calls of `result()` have the
recorded answer met again; the second `stop()` finds the thread already joined. In the pool, four
items over three workers make some worker come back for more while others still hold an item, and three
workers let one fail, one be cancelled and one go on. In `command_line`: two links are what a wrong link needs; targets are written in eight ways, zones
that cannot be among them; two echoes let one be answered and one not; two changes of the table by others fall between the messages of a replacement;
ports 22 and 80 with 443 as somebody else's and three packets hold a retransmission and a contradiction; a banner of up to four
bytes passes a cap of two, with a deadline of two ticks; sizes 3 to 10 take three bisection steps, with one change of the path;
a budget of five addresses over networks of 4, 3, 2 and 9 fits some, splits a list and refuses one that is too wide alone; one entry
comes or goes by itself. In `snmp_read` three values allow two rounds of asking again and an empty third. No symmetry is used: the runs with
liveness could not use it.

**Deadlock** is not checked, because all these systems stop: the calls end.

**Fairness.** `AsyncPosixEcho`: the callback or coroutine that has the loop goes on
(weak fairness of its steps), and the loop serves every ready callback even when other work keeps
coming (strong fairness of `ReaderCalled` and of due timers), which is asyncio's scheduling: each
turn runs everything that was ready at its start. `UntimedSpec` drops the timers and
keeps the wake-up of a resolved future instead. Nothing is assumed of the network or of
new calls. `PosixEcho`: a call that can go on does (weak fairness), and its deadline is
looked at in every turn of the receive loop, so that packets that keep coming cannot put it off (strong
fairness of `TimeUp`); the caller's loop goes on. `DhcpSession`: the scheduler runs every runnable thread and time passes; nothing
is assumed of `receive()`, so a wedged capture is allowed. `SnmpRead`: the coroutine goes on when it can and time passes; nothing
is assumed of the agent or the resolver. `GatherBounded`: each work item ends,
because every one has a timeout of its own.

## 4. Findings

* **A probe with `ttl=None` inherits the previous hop limit**
  (`transport_posix.py`, `_apply_ttl`; run `async_echo_default_ttl`). The socket is left as the last
  hop-limited probe set it, while `ports.py` promises the system default. The Time Exceeded
  the packet then draws is ignored, since the probe does not count as hop-limited. No caller inside
  the package mixes the two kinds on one transport; a caller of the transport may.
* **`result()` may record an address without its settle window** (`dhcp.py`, `result`; run
  `dhcp_recorded_when_quiet`). The lock is released between the decision that the
  exchange is quiet and the copy of the record. An address absorbed in between is recorded at once,
  and later ones never are.
* **`result()` may raise after it has answered** (`dhcp.py`, `result`; run `dhcp_repeats_answer`).
  The failure is looked at on every call, while docstring and test say that asking again gives the same answer.
* **A ping counts a router's Time Exceeded as an answer on Windows** (`service.py`, `_build_response`; run `ping_expired_hop`). The outcome
  carries a round-trip time and `ttl_expired`; the summary looks only at the former, while `ports.py` says that ping treats it as no answer.
* **A routed lookup may report another machine's hardware address** (`neighbours.py`, `_active_lookup`; run `next_hop`). The route names
  the router and the link, but the router is asked for by its bare address, so a link-local one is looked for on whichever link the
  routing table picks, and its answer is reported under the route's interface.

Seen while modelling, and part of the models where they say so, but without a run of their own:

* SNMP: `SILENT` is reported although an earlier round was answered with noSuchName.
* TCP transport: an `OSError` from creating the socket escapes `ping` even with `raise_on_error=False` (`transport_tcp.py`, `_probe_socket` stands outside the `try`,
  and `ping` catches `IPScoutError` and `ValueError`), although `api.py` (lines 298-299) says "Set False to report every failure as ``reached=False``" and `docs/usage.md`
  (lines 1017-1019) that every public callable reports a failure other than a refused argument through `IPScoutError`. `EchoAnswersAreTrue` says that this is the only failure that gets past.
* Exit codes: what one of the commands that catch nothing lets through, and an `OSError` out of any other, exits by the errno mapping, which may give 1, in `docs/usage.md` (line 766) "Nothing found",
  where the same table lists a missing permission and a missing capability under 2 (line 767); the same page (lines 771-772) admits the mapping for an unexpected exception. And `reachable` of a name
  that does not resolve exits 1 (the doctest of `main`), which the table lists under 2: `is_reachable` never raises.
* Windows: `aclose` closes the ICMP handle while a worker whose call was cancelled still uses it (not modelled beyond the worker's life).
* Lookups run in the default executor, which may have fewer threads than the concurrency asked for; and `asyncio.run` waits for a lookup's thread after the deadline.
* A netlink dump cut short is read as complete; `_confirmed` does not check that the entry is permanent; a failed `set_neighbour` on Windows
  or macOS may already have deleted the old entry; on macOS a delete by address can hit another link's entry.
* A lookup of a link-local address without a zone can report another link's station; a raw ICMPv6 socket hears advertisements from any link.
* A half-open scan whose second raw socket is refused leaves the first open.
* A banner of a lone newline, or bytes followed by a reset before they are read, is `SILENT`, although `models.py` calls a server
  that sent a byte before the deadline `GREETED`; `drain` and `wait_closed` have no deadline.
* Path MTU: Windows takes silence for a fit, so a silent host has the largest MTU; on a BSD a `ECONNREFUSED` left over from an earlier probe counts as a refusal of the next size.
* `ipscout --json` without a command prints help text.

## 5. Proofs

Every safety property of every passing run is a theorem: the invariants, and the action properties too. The theorems hold for
every value of the constants that satisfies the named assumptions: `ProbesAssumption`, `LoopAssumption`, `SocketAssumption`,
`RunAssumption`, `SessionAssumption`, `PoolAssumption`, `SnmpAssumption`, `LinksAssumption`, `EchoAssumption`, `RoutersAssumption`,
`GrabAssumption`, `SweepAssumption`, `PortsAssumption`, `StationAssumption`, `MtuAssumption`. That is any number of probes, callers,
iterators, workers, items, values, ports, links, networks, resolver results, received bytes and changes by others, any sequence numbers
and hop limits, both kinds of socket, any bounds on the network and the clock. TLC evaluates the assumptions in every run.

What the assumptions say of the world is what the code takes from its interfaces: a resolver's results carry the scope of a link of this
host or none (`EchoAssumption`), a network has at least as many addresses as hosts (`SweepAssumption`), a router is a station.

**AsyncPosixEchoProofs.** The properties are not inductive as they stand: that a future is not set
twice depends on which probes are registered, and that a packet is about the probe it names on
what the kernel can have queued. `IInv` adds `QueuesInv` (both queues hold only genuine packets: what was
sent about a probe carries that probe's numbers, and a stranger's quote without the token is
recognisable), `LoopInv` (at most one coroutine has the loop, and exactly the probes that are
sending or waiting are registered) and `HopInv` (the hop limit in force is the running probe's). Each
action has a lemma; `SettleEffect` says once what settling a packet may do to the futures.
From `Invariance` follow `TypeCorrect`, `HopLimitsAreOwn`, `NoProbeIsRobbed` and `FirstAnswersStand`.
`ContractSafety` adds `AnswersInv`, that with distinct sequence numbers every future holds an
answer to its own probe, and maps each step to a step of `EchoContract` or a stutter.

**ProbeRunProofs.** `RunAssumption` is what both callers do: probes numbered from 1, a walk's hop limit equal to the
number. `IInv` adds to `TypeOK` that both queues hold genuine packets (`QueuesInv`), that only the running probe is
pending and that nothing has ended it yet (`CallInv`), that the packet kept for the end of a wait, or that ended one, answers that
probe (`OwnInv`), and that probes are made in order with none behind the target (`OrderInv`). `MatchIsOwn` is the
heart: the matching rule credits a genuine packet only to the probe it is about, provided no two probes share a number.
From `Invariance` follow `TypeCorrect`, `WaitsEndForTheirOwnReason`, `OutcomesAreOwn`, `WalksStopAtTheTarget`, and
`ContractSafety`, each step mapped to a step of `EchoContract` or a stutter.

**DhcpSessionProofs.** What is over has to be tied to who may still act. As long as `stop()` has not given up on the
reader, `finished` means that the reader is dead (`ReaderInv`), because whoever closes the capture or calls `stop()`
again has joined it (`OwnerInv`); an iterator that saw the end has yielded all there is (`StreamInv`), and a caller that
woke for it finds it so (`AnswerInv`). From `IInv` follow `TypeCorrect`, `NobodyOversleeps`, `StreamsAreWhole`,
`CapturesAreOwned` and `FailuresAreHeard`. `RecordIsFirstSightings` has an invariant of its own (`HeardInv`), which relates the
incremental record to the history of what was heard.

**GatherBoundedProofs.** `ReturnsEveryItem` rests on two facts that hold while nothing has failed: a
worker leaves only when everything was handed out (`HandedOut`), and what was handed out is answered or in
somebody's hands (`NothingLost`). `CallInv` says how a call can have ended, from which
`CancelledCallsStop` follows.

**SnmpReadProofs.** `WantedInv` is the heart: whatever the agent has is still asked for, because a value is dropped only when the
agent itself named it in an answer to the round that asked for it. It holds as long as no two rounds drew the same identifier
(`IdsDiffer`), which the property presupposes too; `QueueInv` says that everything queued is an answer to a round that was
made, true or faulty in one of the listed ways, a stranger's, or an error of the socket. `RemoveAtProperties` is the lemma about the one sequence operator. From
`Invariance` follow `TypeCorrect` and `AnswersAreTrue`.

**CallProofs.** One section per call, each with its invariant, a lemma per action and its theorems.

* *What they share.* Two models fold over sequences: the addresses `ResolveOne` keeps, and the networks a budget admits. A fold is a
  `CHOOSE` of a function that satisfies a law, so its value is known only once some function is shown to satisfy it. `FoldExists` builds it,
  for every length, by induction said of a set of numbers (`NatSetInduction`), which is first-order and needs none of the library's
  induction theorems. `AddressSteps`, `CoveringSteps`, `SplitSteps` and `ListingSteps` then give each fold's steps, and `InductionUpTo` carries a
  property along them.
* *EchoCall.* `FirstAddress` shows that the first address kept is that of the first result of a known family, whatever duplicates
  follow; `AddressInv` that the only lookup ever made is the one it came from. `LegsInv` says what is left to try and `RunInv` that the open transport's probes are
  the last of the call's and those of an earlier method were not answered; without it a fallback could count the earlier method's probes. From
  `EchoInvariance` follow `ProbesFollowTheTarget` and `EchoAnswersAreProved`.
* *HardwareLookup.* `LookInv` keeps whom the request named and why the cache is read until the answer is given. `EntryIsAbout`
  says what the preference for the route's link may pick from the cache. `LookupsTellWhoseAddress` follows.
* *BannerGrab.* `KeptInv` ties what was kept and what is held to the peer's stream byte by byte, and `LineIsOver` records why reading stopped.
  `UpToNewlineIs` and `ChunkFits` say what one read takes. `GreetingsAreFirstLines` follows, for any chunking.
* *Sweep.* `IsScopeOf` says what the fold over the networks guarantees of its two halves; `AddressesCovered` that a sequence of
  networks holds together no more addresses than it covers, although networks may repeat or overlap. `SweepsAreBounded` and
  `MissesLookedEverywhere` follow.
* *PortScan.* The port map is filled incrementally, once per port, and `met` records everything said. While a port is outstanding nothing was said of
  it and it is still filtered; once it is not, its state is the first thing said. `FirstAnswersAreKept` follows.
* *StaticNeighbour.* The answer is given several messages after the facts it tells. The invariant says at each step of each platform
  what the histories already guarantee: while the entry is being confirmed, one that stands in the table is remembered as having stood there since the
  acknowledgement; a deletion was counted; and a link that is no longer to be
  looked at was bare at some moment or the dump was short. `EntriesSetWereHeld` and `RemovalsAreTruthful` follow.
* *PathMtu.* `BoundsInv` says that the bounds are sizes that were asked (or the largest), `SidesInv` that while the search goes on every
  size asked lies outside the bounds on the side of its judgement, so that the next one, strictly between, is new; `JudgedInv` ties each judgement to
  some limit the path had, in the direction its platform does not err. `MiddleIsBetween` is the arithmetic. `MtuIsFound` follows.

**CommandLineProofs.** The composition is proved from the parts. `StepOfEach`: every step of a command is a step of each of the seven
calls or leaves it alone. So each call's invariant holds of the call a command makes, and the others stay as they began
(`IdleStays`); `CallParts` is that conjunction, and from it follows `CallsKeepTheirPromises`, the ten properties of the calls under the
specification of the command. A lemma per composed command (`PingVerdictIsRight` to `SweepVerdictIsRight`) shows that what the command makes of its answer is what the call met;
they need a little more of how calls end (`WriteEndInv`, `LookEndInv`, `GrabEndInv`, `MtuEndInv`, `SweepEndInv`). `CliInv` carries the verdict
to the exit, and `ExitCodesTellTheOutcome` follows.

**Only model-checked.** `ReadEnds`, `ReplyEndsWait`, `ErrorsGetRead`, `ResultReturns`, `StopReleases`, `CallEnds`, `RunEnds`, and the fairness
half of `ImplementsContract` (its steps are the two theorems `ContractSafety`): liveness under fairness is beyond the prover. The
properties of the runs that expect a violation are false, each by its counterexample.

## 6. Not modelled, and what is left

PROJECT.json gives the reason per component. Left open, in order of worth:

1. What a receive loop does under a stream of strangers' datagrams that does not end: `RunEnds` assumes that a deadline that passed is noticed, and few arrive.
2. The asynchronous walk of `traceroute.py` over `AsyncPosixEcho` (the loop is the one `ProbeRun` has), and the lifetime of the Windows handle.
3. Pure algorithms against reference definitions: the checksum, BER lengths, BPF record splitting, DHCP options.

Left out for good: what only talks to the operating system once and keeps no state (interfaces, leases, Wake-on-LAN, the byte layouts of
routes and dumps), the captures on macOS and Windows, which keep the contract `DhcpSession` states of any capture, `subnet_info`, which is
arithmetic on one prefix, and wording and layout.

## 7. Running it

    tlc -workers 2 -config async_echo_walk.cfg MCAsyncPosixEcho
    tlc -workers 2 -config dhcp_session.cfg MCDhcpSession
    tlc -workers 2 -config command_line.cfg MCCommandLine
    tlapm AsyncPosixEchoProofs.tla
    tlapm CommandLineProofs.tla

Module and configuration of each run are listed in PROJECT.json under `runs`.
