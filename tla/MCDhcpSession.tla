---------------------------- MODULE MCDhcpSession ----------------------------
(***************************************************************************)
(* Small instances of DhcpSession for TLC.                                 *)
(***************************************************************************)
EXTENDS DhcpSession, TLC
CONSTANTS a1, a2, c1, c2, s1
TwoAddresses == {a1, a2}
OneAddress == {a1}
OneCaller == {c1}
TwoCallers == {c1, c2}
OneStream == {s1}
=============================================================================
