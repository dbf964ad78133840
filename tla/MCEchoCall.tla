----------------------------- MODULE MCEchoCall -----------------------------
(***************************************************************************)
(* Small instances of EchoCall for TLC.                                    *)
(***************************************************************************)
EXTENDS EchoCall
TwoLinks == {"eth0", "eth1"}
Written ==
  {Target("blank", "none", "none", FALSE, "none"),
   Target("name", "none", "host", FALSE, "none"),
   Target("name", "none", "host", FALSE, "eth0"),
   Target("literal", "ipv4", "A", FALSE, "none"),
   Target("literal", "ipv4", "A", FALSE, "eth0"),
   Target("literal", "ipv6", "L", TRUE, "none"),
   Target("literal", "ipv6", "L", TRUE, "eth1"),
   Target("literal", "ipv6", "L", TRUE, "unfinished")}
NamesHold ==
  {<<Info("ipv4", "A", FALSE, "none"), Info("ipv6", "B", FALSE, "none")>>,
   <<Info("other", "X", FALSE, "none"), Info("ipv6", "L", TRUE, "eth0"),
     Info("ipv6", "L", TRUE, "eth0"), Info("ipv4", "A", FALSE, "none")>>,
   <<Info("ipv6", "L", TRUE, "none"), Info("ipv4", "C", FALSE, "none")>>}
\* All a name has, or no more than what it has of one family.
LookedUp ==
  NamesHold \cup {SelectSeq(infos, LAMBDA info : info.family \in {family, "other"}) :
               infos \in NamesHold, family \in Families}
=============================================================================
