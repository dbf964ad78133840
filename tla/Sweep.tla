--------------------------------- MODULE Sweep ---------------------------------
(***************************************************************************)
(* arp_scan and find_ip_by_mac (src/ipscout/scan.py): probing every        *)
(* address of some networks so that the kernel learns who holds them, and  *)
(* then reading the kernel's neighbour cache.                              *)
(*                                                                         *)
(* One budget of addresses covers the networks of a sweep, taken in the    *)
(* order the host reports them; what does not fit is left out and named.   *)
(* The cache is the kernel's: a probe may be lost, entries come and go     *)
(* while the sweep goes on, and the cache holds addresses of networks the  *)
(* sweep leaves out.  The probes run over GatherBounded.                   *)
(***************************************************************************)
EXTENDS Naturals, Sequences, FiniteSets, SequencesExt, Folds

CONSTANTS
  Networks,        \* [addresses, hosts]: every network, with the size of it and its hosts
  AttachedLists,   \* what local_interfaces may report: sequences of [loopback, network]
  Budget,          \* MAX_SWEEP_HOSTS
  Holdings,        \* who may hold which address: functions from addresses to owners
  MaxCacheChanges  \* bound: entries that come or go by themselves

Owners == {"wanted", "other"}
Grounds == UNION {n.hosts : n \in Networks}

ASSUME SweepAssumption ==
  /\ \A n \in Networks : n.addresses \in Nat \ {0} /\ Cardinality(n.hosts) <= n.addresses
  /\ AttachedLists \subseteq Seq([loopback : BOOLEAN, network : Networks])
  /\ Holdings \subseteq [Grounds -> Owners \cup {"none"}]
  /\ Budget \in Nat \ {0} /\ MaxCacheChanges \in Nat

VARIABLES
  sweep,        \* the call
  sweepStep,    \* where it is
  candidates,   \* the networks it was asked to cover
  scope,        \* the SweepScope: networks covered and skipped
  pinged,       \* addresses probed
  holder,         \* who holds which address, on the network
  cache,        \* the kernel's entries
  cacheChanges,
  entries,      \* the entries as the call read them
  sweepAnswer

sweepVars == <<sweep, sweepStep, candidates, scope, pinged, holder, cache, cacheChanges, entries, sweepAnswer>>

\* What names the ground to sweep.
Sweeps == [op : {"find", "arp"}, scan : BOOLEAN, named : {"nothing", "network", "scope", "both"}]

NoScope == [networks |-> <<>>, skipped |-> <<>>]
NoEntries == [a \in Grounds |-> "none"]
NoSweepAnswer == [kind |-> "none", addresses |-> {}]

SweepFresh ==
  /\ candidates = <<>> /\ scope = NoScope /\ pinged = {}
  /\ holder = NoEntries /\ cache = NoEntries /\ cacheChanges = 0 /\ entries = NoEntries
  /\ sweepAnswer = NoSweepAnswer

SweepInit ==
  /\ sweep \in {s \in Sweeps : s.op = "arp" => s.scan} /\ sweepStep = "check"
  /\ candidates = <<>> /\ scope = NoScope /\ pinged = {}
  /\ holder \in Holdings
  /\ cache \in {NoEntries} \cup {[NoEntries EXCEPT ![a] = holder[a]] : a \in Grounds}
  /\ cacheChanges = 0 /\ entries = NoEntries
  /\ sweepAnswer = NoSweepAnswer

SweepEnds(kind, addresses) ==
  sweepStep' = "done" /\ sweepAnswer' = [kind |-> kind, addresses |-> addresses]
SweepRefused == SweepEnds("raised", {})

\* An entry expires, or traffic of the host's own teaches one.
CacheChanges ==
  /\ sweepStep \in {"probe", "read"} /\ cacheChanges < MaxCacheChanges
  /\ \E a \in Grounds : cache' \in {[cache EXCEPT ![a] = "none"], [cache EXCEPT ![a] = holder[a]]}
  /\ cache' # cache /\ cacheChanges' = cacheChanges + 1
  /\ UNCHANGED <<sweep, sweepStep, candidates, scope, pinged, holder, entries, sweepAnswer>>

-----------------------------------------------------------------------------
\* sweep_scope

\* A /31 or narrower holds nobody else.
PointToPoint(network) == network.addresses <= 2

\* local_networks: those of the interfaces, each once.
LocalNetworks(interfaces) ==
  FoldLeft(LAMBDA listed, i :
             IF i.loopback \/ PointToPoint(i.network) \/ i.network \in ToSet(listed) THEN listed
             ELSE Append(listed, i.network),
           <<>>, interfaces)

Covering(networks) == FoldLeft(LAMBDA total, n : total + n.addresses, 0, networks)

\* SweepScope.from_networks: covered while the budget has room for all of it.
FromNetworks(networks) ==
  FoldLeft(LAMBDA split, n :
             IF Covering(split.networks) + n.addresses <= Budget
               THEN [split EXCEPT !.networks = Append(@, n)]
               ELSE [split EXCEPT !.skipped = Append(@, n)],
           NoScope, networks)

\* sweep_argument_refusal, _plan: ground without a sweep; two grounds.
ArgumentsRefused ==
  (~sweep.scan /\ sweep.named # "nothing") \/ sweep.named = "both"

CheckSweep ==
  /\ sweepStep = "check"
  /\ IF ArgumentsRefused THEN SweepRefused
     ELSE sweepStep' = (IF sweep.scan THEN "plan" ELSE "read") /\ UNCHANGED sweepAnswer
  /\ UNCHANGED <<sweep, candidates, scope, pinged, holder, cache, cacheChanges, entries>>

\* _refuse_an_empty_scope: networks there are, and none of them fits.
EmptyScope(split) == split.networks = <<>> /\ split.skipped # <<>>

\* _targets, _plan: the network named, or those of the
\* interfaces; a caller's scope was made the same way.
PlanSweep ==
  /\ sweepStep = "plan"
  /\ candidates' \in (IF sweep.named = "network" THEN {<<n>> : n \in Networks}
                     ELSE {LocalNetworks(list) : list \in AttachedLists})
  /\ scope' = FromNetworks(candidates')
  /\ IF EmptyScope(scope') THEN SweepRefused
     ELSE sweepStep' = "probe" /\ UNCHANGED sweepAnswer
  /\ UNCHANGED <<sweep, pinged, holder, cache, cacheChanges, entries>>

-----------------------------------------------------------------------------
\* _sweep

\* Mutated form: the candidates rather than those covered.
CoveredAll == UNION {n.hosts : n \in ToSet(candidates)}
\* _hosts_of
Covered == UNION {n.hosts : n \in ToSet(scope.networks)}

\* One host probed: the kernel asks who holds the address, and may hear it.
PingHost(a) ==
  /\ sweepStep = "probe" /\ a \in Covered \ pinged
  /\ pinged' = pinged \cup {a}
  /\ \/ UNCHANGED cache
     \/ holder[a] # "none" /\ cache' = [cache EXCEPT ![a] = holder[a]]
  /\ UNCHANGED <<sweep, sweepStep, candidates, scope, holder, cacheChanges, entries, sweepAnswer>>

AllPinged ==
  /\ sweepStep = "probe" /\ pinged = Covered
  /\ sweepStep' = "read"
  /\ UNCHANGED <<sweep, candidates, scope, pinged, holder, cache, cacheChanges, entries, sweepAnswer>>

Holding(owners, among) == {a \in among : cache[a] \in owners}

\* Mutated form: a miss is a miss.
MissIsFinal(addresses) == SweepEnds("answer", addresses)
\* _refuse_a_partial_miss
Conclusion(addresses) ==
  IF sweep.op = "find" /\ addresses = {} /\ scope.skipped # <<>>
    THEN SweepRefused ELSE SweepEnds("answer", addresses)

\* neighbours, entries_in_scope, addresses_held_by.
ReadEntries ==
  /\ sweepStep = "read"
  /\ entries' = cache
  /\ \/ Conclusion(Holding(IF sweep.op = "find" THEN {"wanted"} ELSE Owners,
                           IF sweep.scan THEN Covered ELSE Grounds))
     \/ SweepRefused
  /\ UNCHANGED <<sweep, candidates, scope, pinged, holder, cache, cacheChanges>>

SweepNext ==
  \/ CacheChanges \/ CheckSweep \/ PlanSweep
  \/ (\E a \in Grounds : PingHost(a)) \/ AllPinged \/ ReadEntries

SweepSpec == SweepInit /\ [][SweepNext]_sweepVars

-----------------------------------------------------------------------------
\* The addresses of some networks, each of its own network.
AddressesOf(networks) == UNION {{n} \X (1..n.addresses) : n \in networks}

\* The networks a sweep probes hold together no more addresses than the budget,
\* however many the host is attached to; nothing is probed unless a sweep was
\* asked for; and a network is left out only if the candidates together exceed
\* the budget (from_networks, _hosts_of, sweep_argument_refusal).
SweepStaysInBudget ==
  /\ \E probed \in SUBSET ToSet(candidates) :
       /\ Cardinality(AddressesOf(probed)) <= Budget
       /\ pinged \subseteq UNION {n.hosts : n \in probed}
  /\ pinged # {} => sweep.scan
  /\ scope.skipped # <<>> => Covering(candidates) > Budget

\* "Not found" is answered for the whole ground or not at all: every host of
\* every candidate network was probed, and no entry the cache holds for any of
\* them shows the address; what is answered holds it, and lies where the sweep
\* looked (find_ip_by_mac, _refuse_a_partial_miss, entries_in_scope).
NotFoundMeansLookedEverywhere ==
  sweepAnswer.kind = "answer" /\ sweep.scan /\ sweep.op = "find" =>
    /\ sweepAnswer.addresses = {} =>
         \A n \in ToSet(candidates) : \A a \in n.hosts : a \in pinged /\ entries[a] # "wanted"
    /\ \A a \in sweepAnswer.addresses : entries[a] = "wanted" /\ a \in pinged

=============================================================================
