---------------------------- MODULE MCHardwareLookup ----------------------------
(***************************************************************************)
(* Small instances of HardwareLookup for TLC.                              *)
(***************************************************************************)
EXTENDS HardwareLookup
TwoLinks == {"eth0", "eth1"}
Station(ip, family, linkLocal) == [ip |-> ip, family |-> family, linkLocal |-> linkLocal]
LocalRouters == {Station("R4", "ipv4", FALSE), Station("L", "ipv6", TRUE)}
Asks == LocalRouters \cup {Station("A", "ipv4", FALSE), Station("B", "ipv6", FALSE)}
=============================================================================
