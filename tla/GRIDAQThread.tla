----------------------------- MODULE GRIDAQThread -----------------------------
(***************************************************************************)
(* The life of a DAQ thread: GRIDAQThread::run() against the calls that    *)
(* other threads make to start, stop and end the acquisition.  They share  *)
(* three flags without a lock; every load of a flag is a step.             *)
(*                                                                         *)
(* The methods of the device (ConnectToDAQ, StartDataAcquisition, ...) are *)
(* the user's; they return, and what they fail with is only reported.      *)
(* StartDataAcquisition calls InitializeAccumulators and AcquireData posts *)
(* to each output once, as the thread skeleton and all the examples do.    *)
(* GRIAccumulator has the contents of the accumulators; here one only      *)
(* matters by whether it holds data.  sleeping_ is written and never used. *)
(***************************************************************************)
EXTENDS Naturals

CONSTANT Outputs      \* the data blocks the thread writes, by accumulator

VARIABLES
  pc,          \* where run() is
  runFlag,     \* run_flag_
  exitFlag,    \* exit_thread_flag_
  forceQuit,   \* force_quit_
  exitDue,     \* what Stop() or ForceQuitDAQ() has still to write to
               \*   exit_thread_flag_
  toPost,      \* the outputs AcquireData() has not posted to yet
  holding,     \* the outputs whose accumulator holds data
  acquiring    \* history: StartDataAcquisition() was called, and no
               \*   StopDataAcquisition() since

flagVars == <<runFlag, exitFlag, forceQuit, exitDue>>
dataVars == <<toPost, holding>>
vars == <<pc, flagVars, dataVars, acquiring>>

-----------------------------------------------------------------------------

PCs == {"NotStarted", "ConnectToDAQ", "LoadConfiguration", "Initialize",
        "AwaitStart", "AwaitStartExit", "LoopExit", "OpenRunTimeControl",
        "StartDataAcquisition", "InnerRun", "InnerExit", "AcquireData",
        "FlushBuffer", "FlushAccumulators", "StopDataAcquisition",
        "AwaitRestart", "AwaitRestartExit", "TerminationRoutines", "Finished"}

TypeOK ==
  /\ pc \in PCs
  /\ {runFlag, exitFlag, forceQuit} \subseteq BOOLEAN
  /\ exitDue \in {"nothing", "TRUE", "FALSE"}
  /\ {toPost, holding} \subseteq SUBSET Outputs
  /\ toPost # {} => pc = "AcquireData"
  /\ acquiring \in BOOLEAN

\* Nothing initialises run_flag_.
Init ==
  /\ pc = "NotStarted"
  /\ runFlag \in BOOLEAN
  /\ exitFlag = FALSE
  /\ forceQuit = FALSE
  /\ exitDue = "nothing"
  /\ toPost = {}
  /\ holding = {}
  /\ acquiring = FALSE

-----------------------------------------------------------------------------
(* Calls from other threads.                                               *)

\* StartThreads(): raises the flag, then starts the thread.
StartThread ==
  /\ pc = "NotStarted"
  /\ pc' = "ConnectToDAQ"
  /\ runFlag' = TRUE
  /\ UNCHANGED <<exitFlag, forceQuit, exitDue, dataVars, acquiring>>

StartCollection ==
  /\ runFlag' = TRUE
  /\ UNCHANGED <<pc, exitFlag, forceQuit, exitDue, dataVars, acquiring>>

StopCollection ==
  /\ runFlag' = FALSE
  /\ UNCHANGED <<pc, exitFlag, forceQuit, exitDue, dataVars, acquiring>>

QuitDAQ ==
  /\ exitFlag' = FALSE
  /\ UNCHANGED <<pc, runFlag, forceQuit, exitDue, dataVars, acquiring>>

\* Two writes: see WriteExitFlag for the second.
ForceQuitDAQ ==
  /\ exitDue = "nothing"
  /\ forceQuit' = TRUE
  /\ exitDue' = "FALSE"
  /\ UNCHANGED <<pc, runFlag, exitFlag, dataVars, acquiring>>

\* GRIRegulator::Stop(), for this thread.
Stop ==
  /\ exitDue = "nothing"
  /\ runFlag' = FALSE
  /\ exitDue' = "TRUE"
  /\ UNCHANGED <<pc, exitFlag, forceQuit, dataVars, acquiring>>

\* exit_thread_flag_ = ..., the second write of Stop() or ForceQuitDAQ().
WriteExitFlag ==
  /\ exitDue # "nothing"
  /\ exitFlag' = (exitDue = "TRUE")
  /\ exitDue' = "nothing"
  /\ UNCHANGED <<pc, runFlag, forceQuit, dataVars, acquiring>>

-----------------------------------------------------------------------------
(* The steps of run().                                                     *)

Goto(from, to) == pc = from /\ pc' = to

\* The user's methods that change nothing here.
Call(method, next) ==
  /\ Goto(method, next)
  /\ UNCHANGED <<flagVars, dataVars, acquiring>>

\* while (!get_run_flag() && !get_exit_thread_flag()) sleep
LoadRunFlag(from, orElse, onward) ==
  /\ Goto(from, IF runFlag THEN onward ELSE orElse)
  /\ UNCHANGED <<flagVars, dataVars, acquiring>>

LoadExitFlag(from, orElse, onward) ==
  /\ Goto(from, IF exitFlag THEN onward ELSE orElse)
  /\ UNCHANGED <<flagVars, dataVars, acquiring>>

\* The device is opened; InitializeAccumulators() empties the accumulators.
StartDataAcquisition ==
  /\ Goto("StartDataAcquisition", "InnerRun")
  /\ holding' = {}
  /\ acquiring' = TRUE
  /\ UNCHANGED <<flagVars, toPost>>

\* Mutant: the inner loop looks at the exit flag only.
InnerRunIgnored == Call("InnerRun", "InnerExit")

\* while (get_run_flag() && !get_exit_thread_flag()), and the call of
\* AcquireData().
InnerRun == LoadRunFlag("InnerRun", "FlushAccumulators", "InnerExit")

InnerExit ==
  /\ Goto("InnerExit", IF exitFlag THEN "FlushAccumulators" ELSE "AcquireData")
  /\ toPost' = IF exitFlag THEN {} ELSE Outputs
  /\ UNCHANGED <<flagVars, holding, acquiring>>

\* AcquireData() posts to one output: Accumulate() drops the data when the
\* run flag is down.
PostData(o) ==
  /\ pc = "AcquireData"
  /\ o \in toPost
  /\ toPost' = toPost \ {o}
  /\ holding' = IF runFlag THEN holding \union {o} ELSE holding
  /\ UNCHANGED <<pc, flagVars, acquiring>>

AcquireDataReturns ==
  /\ toPost = {}
  /\ Call("AcquireData", "FlushBuffer")

\* Mutant: a forced stop does not flush.
FlushAccumulatorsUnlessForced ==
  /\ Goto("FlushAccumulators", "StopDataAcquisition")
  /\ holding' = IF forceQuit THEN holding ELSE {}
  /\ UNCHANGED <<flagVars, toPost, acquiring>>

FlushAccumulators ==
  /\ Goto("FlushAccumulators", "StopDataAcquisition")
  /\ holding' = {}
  /\ UNCHANGED <<flagVars, toPost, acquiring>>

\* Mutant: a thread that is told to exit does not close the device.
StopDataAcquisitionUnlessExiting ==
  /\ Goto("StopDataAcquisition", "AwaitRestart")
  /\ acquiring' = (acquiring /\ (forceQuit \/ exitFlag))
  /\ UNCHANGED <<flagVars, dataVars>>

\* if (!get_force_quit()) StopDataAcquisition()
StopDataAcquisition ==
  /\ Goto("StopDataAcquisition", "AwaitRestart")
  /\ acquiring' = (acquiring /\ forceQuit)
  /\ UNCHANGED <<flagVars, dataVars>>

Connect == \/ Call("ConnectToDAQ", "LoadConfiguration")
           \/ Call("LoadConfiguration", "Initialize")
           \/ Call("Initialize", "AwaitStart")

AwaitStart == \/ LoadRunFlag("AwaitStart", "AwaitStartExit", "LoopExit")
              \/ LoadExitFlag("AwaitStartExit", "AwaitStart", "LoopExit")

\* Mutant: a thread that waits to be started again does not see the exit flag.
AwaitRestartForever ==
  \/ LoadRunFlag("AwaitRestart", "AwaitRestartExit", "LoopExit")
  \/ Call("AwaitRestartExit", "AwaitRestart")

AwaitRestart == \/ LoadRunFlag("AwaitRestart", "AwaitRestartExit", "LoopExit")
                \/ LoadExitFlag("AwaitRestartExit", "AwaitRestart", "LoopExit")

Acquire == \/ Call("OpenRunTimeControl", "StartDataAcquisition")
           \/ StartDataAcquisition
           \/ InnerRun
           \/ InnerExit
           \/ \E o \in Outputs : PostData(o)
           \/ AcquireDataReturns
           \/ Call("FlushBuffer", "InnerRun")
           \/ FlushAccumulators
           \/ StopDataAcquisition

\* The head of the outer loop, and what follows it.
LoopExit == LoadExitFlag("LoopExit", "OpenRunTimeControl",
                         "TerminationRoutines")

\* if (!get_force_quit()) TerminationRoutines()
Terminate == Call("TerminationRoutines", "Finished")

Run == Connect \/ AwaitStart \/ LoopExit \/ Acquire \/ AwaitRestart \/ Terminate

Next ==
  \/ StartThread
  \/ StartCollection
  \/ StopCollection
  \/ QuitDAQ
  \/ ForceQuitDAQ
  \/ Stop
  \/ WriteExitFlag
  \/ Run

Spec == Init /\ [][Next]_vars

\* The thread runs once started; a call that has written one flag writes the
\* other.
FairSpec == Spec /\ WF_vars(Run) /\ WF_vars(WriteExitFlag)

-----------------------------------------------------------------------------
(* What run() guarantees.                                                  *)

\* However the flags change, data that an accumulator took is posted before
\* the next acquisition empties the accumulators, and before the thread ends
\* (GRIDAQThread.cpp:100-104).
NothingTakenIsDropped ==
  pc \in {"StartDataAcquisition", "AwaitRestart", "TerminationRoutines",
          "Finished"} => holding = {}

\* The device is never opened twice without being closed, nor shut down open,
\* except after ForceQuitDAQ() (GRIDAQThread.h:240-251, 271-275).
DeviceIsBracketed ==
  pc \in {"StartDataAcquisition", "TerminationRoutines"} /\ acquiring
    => forceQuit

\* A thread that Stop() told to exit ends, unless QuitDAQ() or
\* ForceQuitDAQ() take the flag back.
ExitEndsThread ==
  exitFlag /\ pc # "NotStarted" ~> pc = "Finished" \/ ~ exitFlag

\* Stopping the collection closes the device, unless it is started again.
StopClosesDevice ==
  ~ runFlag /\ acquiring ~> ~ acquiring \/ runFlag \/ forceQuit
=============================================================================
