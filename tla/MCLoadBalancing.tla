--------------------------- MODULE MCLoadBalancing ---------------------------
(* An instance of GRILoadBalancing for TLC: a writer of two blocks. *)
EXTENDS GRILoadBalancing, TLC

CONSTANTS writer, r1, r2, b1, b2

MCThreads == {writer, r1, r2}
MCBlocks == {b1, b2}
MCWriter == b1 :> writer @@ b2 :> writer
MCReader == b1 :> r1 @@ b2 :> r2
=============================================================================
