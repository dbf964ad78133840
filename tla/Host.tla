--------------------------------- MODULE Host ---------------------------------
(***************************************************************************)
(* What every operation of ipscout assumes of the host it runs on.         *)
(***************************************************************************)

CONSTANT Links   \* the interfaces of this host

Families == {"ipv4", "ipv6"}
\* What can stand after a % and names no interface: nothing yet, two zones, or
\* text no zone may hold.
BadZones == {"unfinished", "double", "illegal"}

ASSUME LinksAssumption == Links \cap (BadZones \cup {"none", "any"}) = {}

=============================================================================
