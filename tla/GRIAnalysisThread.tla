--------------------------- MODULE GRIAnalysisThread ---------------------------
(***************************************************************************)
(* The life of the analysis threads (core/GRIAnalysisThread), which the    *)
(* regulator starts and stops (core/GRIRegulator), over the data path.     *)
(*                                                                         *)
(* run() looks at two flags that others write; each look is a step.  The   *)
(* calls of ReadMemory() and WriteMemory() that GRIRegulator allows at any *)
(* time an analysis thread makes in Analyze() only.  Start() and Stop()    *)
(* are called by one thread, which goes through the processes and does two *)
(* things to each; in which order it does not matter here.  That Start()   *)
(* sets the links again changes nothing, and the threads that are no       *)
(* analysis threads are as free as in GRIRegulator: see GRIDAQThread.      *)
(***************************************************************************)
EXTENDS GRIRegulator

CONSTANT AnalysisThreads

ASSUME AnalysisAssumption == AnalysisThreads \subseteq Threads

VARIABLES
  place,      \* place[t]: where t is in run()
  runFlag,    \* runFlag[t]: run_flag_
  exitFlag,   \* exitFlag[t]: exit_thread_flag_
  calling,    \* the call of the regulator in progress
  due,        \* the threads that this call has yet to come to
  turn        \* the thread of which it has written the run flag only

flagVars == <<runFlag, exitFlag>>
startVars == <<calling, due, turn>>
lifeVars == <<place, flagVars, startVars>>
analysisVars == <<vars, lifeVars>>

-----------------------------------------------------------------------------

Places == {"NotRunning", "Outer", "IdleRun", "IdleExit", "Sleep", "LoopRun",
           "LoopExit", "Analyze"}

LifeTypeOK ==
  /\ place \in [AnalysisThreads -> Places]
  /\ runFlag \in [AnalysisThreads -> BOOLEAN]
  /\ exitFlag \in [AnalysisThreads -> BOOLEAN]
  /\ calling \in {"Start", "Stop", "None"}
  /\ due \subseteq AnalysisThreads
  /\ turn \in AnalysisThreads \union {None}

\* Nothing sets run_flag_ before StartThreads() does.
AnalysisInit ==
  /\ Init
  /\ place = [t \in AnalysisThreads |-> "NotRunning"]
  /\ runFlag \in [AnalysisThreads -> BOOLEAN]
  /\ exitFlag = [t \in AnalysisThreads |-> FALSE]
  /\ calling = "None"
  /\ due = {}
  /\ turn = None

-----------------------------------------------------------------------------
(* GRIRegulator::Start and Stop, ForceQuitAnalysis().                      *)

CallRegulator(name) ==
  /\ calling = "None"
  /\ calling' = name
  /\ due' = AnalysisThreads
  /\ UNCHANGED <<vars, place, flagVars, turn>>

\* Both calls begin with the run flag.
SetRunFlag(t) ==
  /\ calling # "None"
  /\ turn = None
  /\ t \in due
  /\ runFlag' = [runFlag EXCEPT ![t] = calling = "Start"]
  /\ due' = due \ {t}
  /\ turn' = t
  /\ UNCHANGED <<vars, place, exitFlag, calling>>

\* The call is through with t.
Through(name, t) ==
  /\ calling = name
  /\ turn = t
  /\ turn' = None
  /\ calling' = IF due = {} THEN "None" ELSE name
  /\ UNCHANGED due

\* start(), which does nothing to a thread that runs.
StartThread(t) ==
  /\ Through("Start", t)
  /\ place' = IF place[t] = "NotRunning" THEN [place EXCEPT ![t] = "Outer"]
              ELSE place
  /\ UNCHANGED <<vars, flagVars>>

SetExitThreadFlag(t) ==
  /\ Through("Stop", t)
  /\ exitFlag' = [exitFlag EXCEPT ![t] = TRUE]
  /\ UNCHANGED <<vars, place, runFlag>>

\* Mutant: the thread is ended where it is.
ForceQuitAnalysisTerminates(t) ==
  /\ exitFlag' = [exitFlag EXCEPT ![t] = TRUE]
  /\ place' = [place EXCEPT ![t] = "NotRunning"]
  /\ UNCHANGED <<vars, runFlag, startVars>>

\* Nothing looks at the other flag that it sets.
ForceQuitAnalysis(t) ==
  /\ exitFlag' = [exitFlag EXCEPT ![t] = TRUE]
  /\ UNCHANGED <<vars, place, runFlag, startVars>>

-----------------------------------------------------------------------------
(* GRIAnalysisThread::run.                                                 *)

Jump(t, from, to) ==
  /\ place[t] = from
  /\ place' = [place EXCEPT ![t] = to]
  /\ UNCHANGED <<vars, flagVars, startVars>>

Outer(t) == Jump(t, "Outer", IF exitFlag[t] THEN "NotRunning" ELSE "IdleRun")

IdleRun(t) == Jump(t, "IdleRun", IF runFlag[t] THEN "LoopRun" ELSE "IdleExit")

\* Mutant: only the run flag is looked at.
IdleExitUnseen(t) == Jump(t, "IdleExit", "Sleep")

IdleExit(t) == Jump(t, "IdleExit", IF exitFlag[t] THEN "LoopRun" ELSE "Sleep")

Sleep(t) == Jump(t, "Sleep", "IdleRun")

LoopRun(t) == Jump(t, "LoopRun", IF runFlag[t] THEN "LoopExit" ELSE "Outer")

LoopExit(t) == Jump(t, "LoopExit", IF exitFlag[t] THEN "Outer" ELSE "Analyze")

\* Analyze() returns; what follows it does not touch this state.
EndAnalyze(t) == pc[t] = "Idle" /\ Jump(t, "Analyze", "LoopRun")

Look(t) ==
  \/ Outer(t) \/ IdleRun(t) \/ IdleExit(t) \/ Sleep(t)
  \/ LoopRun(t) \/ LoopExit(t)

MayCall(t) == t \in AnalysisThreads => place[t] = "Analyze"

\* A step of the data path.
DataStep(t) == (WriteStep(t) \/ ReadStep(t)) /\ UNCHANGED lifeVars

DataCall(t, b) ==
  /\ MayCall(t)
  /\ ReadMemory(t, b) \/ \E n \in Sizes : WriteMemory(t, b, n)
  /\ UNCHANGED lifeVars

AnalysisNext ==
  \/ \E name \in {"Start", "Stop"} : CallRegulator(name)
  \/ \E t \in AnalysisThreads :
       \/ SetRunFlag(t) \/ StartThread(t) \/ SetExitThreadFlag(t)
       \/ ForceQuitAnalysis(t)
       \/ Look(t) \/ EndAnalyze(t)
  \/ \E t \in Threads : DataStep(t) \/ \E b \in Blocks : DataCall(t, b)
  \/ \E b \in Blocks, isEnabled \in BOOLEAN :
       SetEnabled(b, isEnabled) /\ UNCHANGED lifeVars

AnalysisSpec == AnalysisInit /\ [][AnalysisNext]_analysisVars

\* Threads run when they can, and the Analyze() of an application makes a
\* finite number of calls.
AnalysisFairness ==
  /\ \A t \in Threads : WF_analysisVars(DataStep(t))
  /\ \A t \in AnalysisThreads :
       WF_analysisVars(Look(t)) /\ SF_analysisVars(EndAnalyze(t))

FairAnalysisSpec == AnalysisSpec /\ AnalysisFairness

-----------------------------------------------------------------------------
(* Properties.                                                             *)

\* The flags are looked at between two calls of Analyze() only
\* (GRIAnalysisThread.cpp:65-74): an analysis thread that does not run holds
\* no lock of a buffer, is in no call, and was given every packet that was
\* counted for it, so that the others can go on without it.
EndsBetweenPackets ==
  \A t \in AnalysisThreads : place[t] = "NotRunning" =>
    /\ t \notin waiters
    /\ \A b \in Blocks :
         /\ writeLock[b] # t /\ t \notin readLocks[b]
         /\ Writer[b] = t => Len(posted[b]) = writeCounter[b] /\ ~ buffer[b].busy
         /\ FirstLinked[b] = t => readCounter[b] = Len(Delivered(b))

\* A thread that is told to exit ends, unless it is asleep in ReadMemory().
ExitEndsOrSleeps ==
  \A t \in AnalysisThreads :
    exitFlag[t] ~> place[t] = "NotRunning" \/ pc[t] = "Asleep"

-----------------------------------------------------------------------------
(* What the documentation says and the code does not do: see README 3.  *)

\* Stop() stops all of the threads (GRIRegulator.h:95).
StopEndsThreads ==
  \A t \in AnalysisThreads : exitFlag[t] ~> place[t] = "NotRunning"
=============================================================================
