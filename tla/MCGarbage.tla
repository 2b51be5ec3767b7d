------------------------------ MODULE MCGarbage ------------------------------
(***************************************************************************)
(* Instances of GRIGarbage for TLC.  The threads and the addresses are     *)
(* model values; the configurations give their sets.                       *)
(***************************************************************************)
EXTENDS GRIGarbage

CONSTANTS ana, sink      \* analysis threads

OneReader  == {ana}
TwoReaders == {ana, sink}
=============================================================================
