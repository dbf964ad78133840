---------------------------- MODULE HardwareLookup ----------------------------
(***************************************************************************)
(* lookup_mac and get_mac_address (src/ipscout/neighbours.py): whose       *)
(* hardware address carries a frame towards a target, asked of the link or *)
(* read from the kernel's neighbour cache, with the active resolution of   *)
(* each platform (neighbours_linux.py, neighbours_macos.py,                *)
(* neighbours_windows.py, arp.py) and the routing table (routes.py).       *)
(*                                                                         *)
(* A hardware address is identified by who holds it: a station's address   *)
(* on one link.  A link-local address names another station on every link. *)
(***************************************************************************)
EXTENDS Host

CONSTANTS
  Stations,   \* [ip, family, linkLocal]: addresses callers ask about
  Routers     \* the ones routes go through

ASSUME RoutersAssumption == Routers \subseteq Stations

VARIABLES
  lookup,       \* the call
  lookStep,     \* where it is
  route,        \* what the routing table said of the target
  asking,       \* the station asked for, and the link it is asked on
  couldNotAsk,  \* why nothing could be asked: "no", "permission", "unsupported"
  heard,        \* the hardware address that answered the request
  cacheRead,    \* the neighbour cache as the call read it
  found         \* the MacLookup, or the error

lookVars == <<lookup, lookStep, route, asking, couldNotAsk, heard, cacheRead, found>>

Mac(link, station) == [link |-> link, station |-> station]
NoMac == [link |-> "none", station |-> "none"]
NoRoute == [kind |-> "unrouted"]
OnLink(link) == [kind |-> "onLink", interface |-> link]
Via(router, link) == [kind |-> "via", gateway |-> router, interface |-> link]
Routed(r) == r.kind = "via"
NotAsking == [station |-> "none", link |-> "none"]
NotFound == [kind |-> "none", scope |-> "none", mac |-> NoMac, interface |-> "none", method |-> "none"]
Raised(error) == [NotFound EXCEPT !.kind = error]
MacLookup(scope, mac, interface, method) ==
  [kind |-> "answer", scope |-> scope, mac |-> mac, interface |-> interface, method |-> method]

\* A zone is refused after an IPv4 literal; "elsewhere" names no interface here.
Lookups ==
  {l \in [target : Stations, zone : {"none", "elsewhere"} \cup Links, platform : {"posix", "windows"},
          active : BOOLEAN, fallback : BOOLEAN, strict : BOOLEAN] :
     l.target.family = "ipv4" => l.zone = "none"}

LookupFresh ==
  /\ route = NoRoute /\ asking = NotAsking /\ couldNotAsk = "no" /\ heard = NoMac
  /\ cacheRead = {} /\ found = NotFound

LookupInit ==
  /\ lookup \in Lookups /\ lookStep = "route"
  /\ LookupFresh

-----------------------------------------------------------------------------
ZoneGiven == lookup.zone # "none"
OnInterface == IF ZoneGiven THEN lookup.zone ELSE IF route = NoRoute THEN "none" ELSE route.interface

\* get_mac_address, and mac --strict, drop what is not the host's own.
Conclude(answer) ==
  /\ lookStep' = "done"
  /\ found' = IF lookup.strict /\ answer.scope # "direct" THEN [answer EXCEPT !.mac = NoMac] ELSE answer

Routes ==
  {NoRoute} \cup {OnLink(link) : link \in Links}
  \cup {Via(router, link) : router \in {r \in Routers \ {lookup.target} : r.family = lookup.target.family},
                            link \in Links}

\* The order of the checks is the code's: the arguments, the routing table, and
\* for an active lookup the interface the zone names.
QueryRoute ==
  /\ lookStep = "route"
  /\ IF lookup.fallback /\ ~lookup.active
       THEN Conclude(Raised("refused")) /\ UNCHANGED route
       ELSE /\ route' \in Routes
            /\ IF lookup.active /\ lookup.zone = "elsewhere"
                 THEN Conclude(Raised("unresolved"))
                 ELSE lookStep' = (IF lookup.active THEN "ask" ELSE "cache") /\ UNCHANGED found
  /\ UNCHANGED <<lookup, asking, couldNotAsk, heard, cacheRead>>

\* query_route of a bare address: the table cannot tell one link's link-local
\* address from another's.
LinksTowards(station) ==
  IF station.linkLocal THEN Links
  ELSE IF route = NoRoute THEN {} ELSE {route.interface}

\* Whom a frame to the target is handed to, and the link he is asked on:
\* resolve_active(route.gateway) has no zone, resolve_active(ip) the caller's.
Asked == IF Routed(route) THEN route.gateway ELSE lookup.target
AskingLinks ==
  IF ~Routed(route) /\ ZoneGiven THEN {lookup.zone} ELSE LinksTowards(Asked)

\* _sending_interface, and the socket, device or library call.
SendRequest ==
  /\ lookStep = "ask"
  /\ \E link \in AskingLinks : asking' = [station |-> Asked.ip, link |-> link]
  /\ lookStep' = "listen"
  /\ UNCHANGED <<lookup, route, couldNotAsk, heard, cacheRead, found>>

\* No privilege, no route, no interface that can carry the request, or an
\* error while asking or listening.
CannotAsk ==
  /\ lookStep \in {"ask", "listen"}
  /\ \E why \in {"permission", "unsupported"} :
       /\ AskingLinks = {} => why = "unsupported"
       /\ couldNotAsk' = why
       /\ IF lookup.fallback THEN lookStep' = "cache" /\ UNCHANGED found
                             ELSE Conclude(Raised(why))
  /\ UNCHANGED <<lookup, route, asking, heard, cacheRead>>

\* A link-layer socket hears one link; a raw ICMPv6 socket hears them all.
HeardOn ==
  IF lookup.platform = "posix" /\ lookup.target.family = "ipv6" /\ Asked.linkLocal
    THEN Links ELSE {asking.link}

AskedAnswer(mac) ==
  IF Routed(route) THEN MacLookup("nextHop", mac, route.interface, "active")
  ELSE MacLookup(IF mac = NoMac THEN "unknown" ELSE "direct", mac, OnInterface, "active")

\* await_answer: the first frame that is an answer about that address.
HearAnswer ==
  /\ lookStep = "listen"
  /\ \E link \in HeardOn :
       /\ heard' = Mac(link, asking.station)
       /\ Conclude(AskedAnswer(heard'))
  /\ UNCHANGED <<lookup, route, asking, couldNotAsk, cacheRead>>

\* Mutated form: an unanswered request falls back to the cache as well.
NobodyAnswersSoRead ==
  /\ lookStep = "listen"
  /\ IF lookup.fallback THEN lookStep' = "cache" /\ UNCHANGED found ELSE Conclude(AskedAnswer(NoMac))
  /\ UNCHANGED <<lookup, route, asking, couldNotAsk, heard, cacheRead>>

NobodyAnswers ==
  /\ lookStep = "listen"
  /\ Conclude(AskedAnswer(NoMac))
  /\ UNCHANGED <<lookup, route, asking, couldNotAsk, heard, cacheRead>>

\* _entry_for: the entry on that link, else the first of any.
EntriesFor(station, interface, entries) ==
  LET matches == {e \in entries : e.station = station}
      onLink  == {e \in matches : e.link = interface}
  IN IF onLink # {} THEN onLink ELSE IF matches # {} THEN matches ELSE {NoMac}

\* _cached_lookup, over the entries the kernel lists by now.
ReadCache ==
  /\ lookStep = "cache"
  /\ \E entries \in SUBSET {Mac(link, s.ip) : link \in Links, s \in {lookup.target, Asked}} :
       /\ cacheRead' = entries
       /\ IF Routed(route)
            THEN \E hop \in EntriesFor(route.gateway.ip, route.interface, entries) :
                   Conclude(MacLookup("nextHop", hop, IF hop = NoMac THEN route.interface ELSE hop.link, "cache"))
            ELSE \E entry \in EntriesFor(lookup.target.ip, OnInterface, entries) :
                   Conclude(IF entry = NoMac THEN MacLookup("unknown", NoMac, OnInterface, "cache")
                                             ELSE MacLookup("direct", entry, entry.link, "cache"))
  /\ UNCHANGED <<lookup, route, asking, couldNotAsk, heard>>

LookupNext == QueryRoute \/ SendRequest \/ CannotAsk \/ HearAnswer \/ NobodyAnswers \/ ReadCache

LookupSpec == LookupInit /\ [][LookupNext]_lookVars

-----------------------------------------------------------------------------
\* The scope says whose address it is: a host behind a router never passes for
\* a neighbour, nor the router for the host (_active_lookup, _cached_lookup).
ScopeIsRight ==
  found.mac # NoMac =>
    /\ found.scope = "direct"  => ~Routed(route) /\ found.mac.station = lookup.target.ip
    /\ found.scope = "nextHop" => Routed(route) /\ found.mac.station = route.gateway.ip
    /\ found.scope \in {"direct"} \cup (IF lookup.strict THEN {} ELSE {"nextHop"})

\* The method says where it comes from: an unanswered request is never replaced
\* by a cache entry, and the cache is read for an active lookup only where
\* nothing could be asked and the caller allowed it (ask_or_read_cache).
MethodIsRight ==
  found.kind = "answer" =>
    /\ found.method = "active" => lookup.active /\ found.mac \in {heard, NoMac}
    /\ found.method = "cache" /\ lookup.active => lookup.fallback /\ couldNotAsk # "no"
    /\ found.method = "cache" => found.mac \in cacheRead \cup {NoMac}

\* A zone names the link: it is the one asked, and an entry on it is preferred.
ZoneIsKept ==
  found.kind = "answer" /\ ZoneGiven /\ ~Routed(route) =>
    /\ found.method = "active" => asking.link = lookup.zone
    /\ found.method = "cache" /\ Mac(lookup.zone, lookup.target.ip) \in cacheRead =>
         found.mac.link = lookup.zone

\* What lookup_mac answers is what it says it is, whichever way it was found.
LookupTellsWhoseAddress == ScopeIsRight /\ MethodIsRight /\ ZoneIsKept

\* lookup_mac: for a routed address the answer is the next-hop router, here one
\* that was heard on the very link it was asked on.
NextHopIsTheRouter ==
  found.scope = "nextHop" /\ found.method = "active" /\ found.mac # NoMac /\ heard.link = asking.link =>
    found.mac = Mac(route.interface, route.gateway.ip)

=============================================================================
