---------------------------- MODULE MCCommandLine ----------------------------
(***************************************************************************)
(* A small host for TLC: two links, one IPv4 and one IPv6 router, the      *)
(* targets a caller can write, what their names resolve to, and the        *)
(* networks it may sweep.                                                  *)
(***************************************************************************)
EXTENDS CommandLine
TwoLinks == {"eth0", "eth1"}
Written ==
  {Target("blank", "none", "none", FALSE, "none"),
   Target("name", "none", "host", FALSE, "none"),
   Target("name", "none", "host", FALSE, "eth0"),
   Target("literal", "ipv4", "A", FALSE, "none"),
   Target("literal", "ipv4", "A", FALSE, "eth0"),
   Target("literal", "ipv6", "L", TRUE, "none"),
   Target("literal", "ipv6", "L", TRUE, "eth1"),
   Target("literal", "ipv6", "L", TRUE, "unfinished")}
NamesHold ==
  {<<Info("ipv4", "A", FALSE, "none"), Info("ipv6", "B", FALSE, "none")>>,
   <<Info("other", "X", FALSE, "none"), Info("ipv6", "L", TRUE, "eth0"),
     Info("ipv6", "L", TRUE, "eth0"), Info("ipv4", "A", FALSE, "none")>>,
   <<Info("ipv6", "L", TRUE, "none"), Info("ipv4", "C", FALSE, "none")>>}
\* All a name has, or no more than what it has of one family.
LookedUp ==
  NamesHold \cup {SelectSeq(infos, LAMBDA info : info.family \in {family, "other"}) :
               infos \in NamesHold, family \in Families}
Station(ip, family, linkLocal) == [ip |-> ip, family |-> family, linkLocal |-> linkLocal]
LocalRouters == {Station("R4", "ipv4", FALSE), Station("L", "ipv6", TRUE)}
Asks == LocalRouters \cup {Station("A", "ipv4", FALSE), Station("B", "ipv6", FALSE)}
Net(size, members) == [addresses |-> size, hosts |-> members]
Lan == Net(4, {"a1", "a2"})
Lab == Net(3, {"b1"})
PointToPointLink == Net(2, {"p1"})
Wide == Net(9, {"w1"})
Nets == {Lan, Lab, PointToPointLink, Wide}
On(network) == [loopback |-> FALSE, network |-> network]
Loopback == [loopback |-> TRUE, network |-> Lab]
Lists ==
  {<<>>, <<On(Lan), On(Lab)>>, <<On(Wide), On(Lan), On(Lan)>>, <<On(Wide)>>,
   <<Loopback, On(PointToPointLink), On(Lan)>>}
HeldAs(wanted, rest) == [a \in Grounds |-> IF a = wanted THEN "wanted" ELSE rest]
Holders == {HeldAs(wanted, rest) : wanted \in Grounds \cup {"nobody"}, rest \in {"none", "other"}}
=============================================================================
