----------------------------- MODULE MCProbeRun -----------------------------
(***************************************************************************)
(* A small instance of ProbeRun for TLC.                                   *)
(***************************************************************************)
EXTENDS ProbeRun
NumberedProbes == 1..Last
NumberedSequence == [p \in 1..Last |-> p]
WalkTtl == [p \in 1..Last |-> p]
=============================================================================
