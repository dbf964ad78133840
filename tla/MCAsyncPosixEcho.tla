-------------------------- MODULE MCAsyncPosixEcho --------------------------
(***************************************************************************)
(* Small instances of AsyncPosixEcho for TLC.                              *)
(***************************************************************************)
EXTENDS AsyncPosixEcho, TLC

CONSTANTS p1, p2

TwoProbes == {p1, p2}

\* Callers that give both probes the same sequence number.
SharedSequence == p1 :> 1 @@ p2 :> 1
SharedTtl == p1 :> 1 @@ p2 :> 1
\* A walk: sequence and hop limit count up together.
WalkSequence == p1 :> 1 @@ p2 :> 2
WalkTtl == p1 :> 1 @@ p2 :> 2
\* One hop-limited probe and one that asks for the system default.
MixedTtl == p1 :> 1 @@ p2 :> 0
=============================================================================
