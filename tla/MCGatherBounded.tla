--------------------------- MODULE MCGatherBounded ---------------------------
(***************************************************************************)
(* A small instance of GatherBounded for TLC.                              *)
(***************************************************************************)
EXTENDS GatherBounded
CONSTANTS w1, w2, w3
ThreeWorkers == {w1, w2, w3}
=============================================================================
