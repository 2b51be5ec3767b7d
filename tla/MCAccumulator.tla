----------------------------- MODULE MCAccumulator -----------------------------
(***************************************************************************)
(* Instances of GRIAccumulator for TLC.                                    *)
(***************************************************************************)
EXTENDS GRIAccumulator

\* Timestamps over a ring of three windows of two ticks and its first moves.
TwelveTicks == 0 .. 11
=============================================================================
