------------------------------- MODULE Resolve -------------------------------
(***************************************************************************)
(* From a target as the caller wrote it to the address a probe is sent to  *)
(* (src/ipscout/resolve.py).                                               *)
(*                                                                         *)
(* A target is a record: what it is written as, the family and host of a   *)
(* literal, whether that is an IPv6 link-local address, and the zone after *)
(* its %.  The system resolver returns a sequence of sockaddrs or fails.   *)
(* Hosts stand for the octets of an address.                               *)
(***************************************************************************)
EXTENDS Host, Naturals, Sequences, SequencesExt, Folds

Target(form, family, host, linkLocal, zone) ==
  [form |-> form, family |-> family, host |-> host, linkLocal |-> linkLocal, zone |-> zone]
\* One getaddrinfo result; scope is the interface its scope id names.
Info(family, host, linkLocal, scope) ==
  [family |-> family, host |-> host, linkLocal |-> linkLocal, scope |-> scope]

Refused == <<>>
Zoned(target) == target.zone # "none"

\* family_of: ip_address takes a zone after an IPv6 literal and nowhere else.
FamilyOf(target) ==
  IF target.form = "literal" /\ target.zone \notin BadZones /\ (Zoned(target) => target.family = "ipv6")
    THEN target.family ELSE "none"

\* _refuse_a_malformed_zone
MalformedZone(target) ==
  Zoned(target) /\ (target.zone \in BadZones \/ target.form = "name" \/ target.family = "ipv4")

\* Decided before the resolver is asked.
RefusedUnasked(target, family) ==
  \/ target.form = "blank"
  \/ family # "any" /\ FamilyOf(target) \notin {"none", family}
  \/ MalformedZone(target)

\* _with_zone: the zone as written, else the scope the resolver gave.
WithZone(info, written) ==
  [host |-> info.host, family |-> info.family, linkLocal |-> info.linkLocal,
   zone |-> IF written # "none" THEN written ELSE info.scope]

\* _dedupe, of one more address: its text is its host and zone.
Dedupe(kept, a) ==
  IF \E i \in DOMAIN kept : kept[i].host = a.host /\ kept[i].zone = a.zone
    THEN kept ELSE Append(kept, a)

\* _resolve, over _resolved_targets: the addresses of a known family in the
\* resolver's order, or Refused.  infos is Refused when getaddrinfo failed.
Addresses(target, family, infos) ==
  IF RefusedUnasked(target, family) THEN Refused
  ELSE FoldLeft(LAMBDA kept, info :
                  IF info.family \in Families THEN Dedupe(kept, WithZone(info, target.zone)) ELSE kept,
                Refused, infos)

\* _refuse_a_link_local_address_with_no_zone
NeedsZone(address) == address.family = "ipv6" /\ address.linkLocal /\ address.zone = "none"

NoAddress == [host |-> "none", family |-> "none", linkLocal |-> FALSE, zone |-> "none"]

\* Mutated form: the last address rather than the first.
ResolveOneLast(target, family, infos) ==
  LET found == Addresses(target, family, infos)
  IN IF found = Refused \/ NeedsZone(found[Len(found)]) THEN NoAddress ELSE found[Len(found)]

\* resolve_one: the single address a probe uses, or NoAddress for a refusal.
ResolveOne(target, family, infos) ==
  LET found == Addresses(target, family, infos)
  IN IF found = Refused \/ NeedsZone(found[1]) THEN NoAddress ELSE found[1]

=============================================================================
