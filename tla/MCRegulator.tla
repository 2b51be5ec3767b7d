----------------------------- MODULE MCRegulator -----------------------------
(***************************************************************************)
(* Instances of GRIRegulator for TLC: the links of three configurations.   *)
(***************************************************************************)
EXTENDS GRIRegulator, TLC

CONSTANTS daq, ana, sink,     \* threads
          raw, result         \* blocks

\* One acquisition thread and one analysis thread, one link.
PairThreads     == {daq, ana}
PairBlocks      == {raw}
PairWriter      == raw :> daq
PairLinked      == raw :> {ana}
PairFirstLinked == raw :> ana

\* The analysis thread posts its results to a second analysis thread.
ChainThreads     == {daq, ana, sink}
ChainBlocks      == {raw, result}
ChainWriter      == raw :> daq @@ result :> ana
ChainLinked      == raw :> {ana} @@ result :> {sink}
ChainFirstLinked == raw :> ana @@ result :> sink

\* The second analysis thread is linked to the block of the first as well.
BothLinked == raw :> {ana, sink} @@ result :> {sink}
=============================================================================
