----------------------------- MODULE MCCollection -----------------------------
(***************************************************************************)
(* An instance of GRICollection for TLC: two outputs, as channels and      *)
(* timestamps in the examples.                                             *)
(***************************************************************************)
EXTENDS GRICollection

CONSTANTS chan, ts      \* outputs
=============================================================================
