----------------------------- MODULE GRICollection -----------------------------
(***************************************************************************)
(* A DAQ thread with its accumulators, as far as an analysis depends on    *)
(* them together.  Analyze() reads one packet of each output and takes     *)
(* them to be of the same time, but each output has an accumulator of its  *)
(* own, and each post looks at the run flag anew.                          *)
(*                                                                         *)
(* GRIDAQThread is extended by how far the windows of each accumulator     *)
(* have moved, which is how many packets it has posted: one whenever they  *)
(* move by one, and the same number for all at a flush.  GRIAccumulator    *)
(* has the windows themselves.  All outputs have the same number of        *)
(* windows and are given the same times, as in the simulator.              *)
(***************************************************************************)
EXTENDS GRIDAQThread

CONSTANT MaxReach     \* bound on how far the windows move in one collection

ASSUME ReachAssumption == MaxReach \in Nat

VARIABLES
  reach,       \* how far the windows must move for the latest events
  moved,       \* how far those of each output have moved since
               \*   InitializeAccumulators()
  seen,        \* history: the run flag as the posts of this acquisition saw it
  split,       \* history: two posts of one acquisition saw it differ
  apart        \* history: two outputs have not posted the same number of
               \*   packets in some collection

windowVars == <<reach, moved, seen, split, apart>>

CollectionTypeOK ==
  /\ TypeOK
  /\ reach \in 0 .. MaxReach
  /\ moved \in [Outputs -> 0 .. MaxReach]
  /\ seen \subseteq BOOLEAN
  /\ {split, apart} \subseteq BOOLEAN

CollectionInit ==
  /\ Init
  /\ reach = 0
  /\ moved = [o \in Outputs |-> 0]
  /\ seen = {}
  /\ split = FALSE
  /\ apart = FALSE

-----------------------------------------------------------------------------
(* What the steps of run() do to the windows. *)

\* StartDataAcquisition
InitializeAccumulators ==
  /\ pc = "StartDataAcquisition"
  /\ moved' = [o \in Outputs |-> 0]
  /\ UNCHANGED <<reach, seen, split, apart>>

\* AcquireData() has its events, in any order of time.
EventsAcquired ==
  /\ pc = "InnerExit" /\ pc' = "AcquireData"
  /\ reach' \in 0 .. MaxReach
  /\ seen' = {}
  /\ UNCHANGED <<moved, split, apart>>

\* Mutant: the accumulator takes no data after the exit flag, either.
AccumulateUnlessExiting(o) ==
  /\ pc = "AcquireData" /\ o \in toPost \ toPost'
  /\ moved' = IF runFlag /\ ~exitFlag /\ reach > moved[o]
              THEN [moved EXCEPT ![o] = reach] ELSE moved
  /\ seen' = seen \union {runFlag}
  /\ split' = (split \/ seen' = BOOLEAN)
  /\ UNCHANGED <<reach, apart>>

\* Events beyond the leading edge move the windows, and for each step the
\* oldest one is posted; with the run flag down the events are dropped.
Accumulate(o) ==
  /\ pc = "AcquireData" /\ o \in toPost \ toPost'
  /\ moved' = IF runFlag /\ reach > moved[o]
              THEN [moved EXCEPT ![o] = reach] ELSE moved
  /\ seen' = seen \union {runFlag}
  /\ split' = (split \/ seen' = BOOLEAN)
  /\ UNCHANGED <<reach, apart>>

\* FlushAccumulators: every accumulator posts all its windows.
FlushBuffers ==
  /\ pc = "FlushAccumulators"
  /\ apart' = (apart \/ \E o, p \in Outputs : moved[o] # moved[p])
  /\ UNCHANGED <<reach, moved, seen, split>>

OtherSteps ==
  /\ pc \notin {"StartDataAcquisition", "FlushAccumulators"}
  /\ pc' = "AcquireData" => pc = "AcquireData" /\ toPost' = toPost
  /\ pc = "AcquireData" => toPost' = toPost
  /\ UNCHANGED windowVars

RunAndPost ==
  /\ Run
  /\ \/ InitializeAccumulators
     \/ EventsAcquired
     \/ \E o \in Outputs : Accumulate(o)
     \/ FlushBuffers
     \/ OtherSteps

\* The calls of others change the flags only.
Calls ==
  /\ StartThread \/ StartCollection \/ StopCollection \/ QuitDAQ
       \/ ForceQuitDAQ \/ Stop \/ WriteExitFlag
  /\ UNCHANGED windowVars

CollectionNext == RunAndPost \/ Calls

\* As FairSpec of GRIDAQThread.
CollectionSpec ==
  /\ CollectionInit /\ [][CollectionNext]_<<vars, windowVars>>
  /\ WF_<<vars, windowVars>>(RunAndPost)
  /\ WF_<<vars, windowVars>>(WriteExitFlag /\ UNCHANGED windowVars)

-----------------------------------------------------------------------------

\* The outputs of a thread stay in step: packet for packet they are of the
\* same collection and the same window, through stops, starts, exits and
\* flushes in any order.  Only a stop that falls between the posts of one
\* acquisition sets them apart (GRIDAQThread.h:441), and then for good, since
\* nothing brings a packet back that one output posted and another did not.
OutputsInStep == apart => split
=============================================================================
