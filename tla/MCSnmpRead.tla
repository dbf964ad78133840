----------------------------- MODULE MCSnmpRead -----------------------------
(***************************************************************************)
(* Small instances of SnmpRead for TLC: the values of _SystemValue.        *)
(***************************************************************************)
EXTENDS SnmpRead
ThreeValues == <<"description", "object_id", "uptime">>
NumericValues == {"object_id", "uptime"}
TwoValues == <<"description", "uptime">>
Uptime == {"uptime"}
=============================================================================
