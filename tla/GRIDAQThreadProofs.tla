-------------------------- MODULE GRIDAQThreadProofs --------------------------
(***************************************************************************)
(* Whatever other threads do to its flags, a DAQ thread posts what its     *)
(* accumulators took and closes the device it opened.  The two properties  *)
(* speak about the places in run() where it would be too late; they become *)
(* inductive by saying where in run() an accumulator can hold data at all, *)
(* and where the device can be open.                                       *)
(* The last section is about the accumulators with it (GRICollection):     *)
(* which collections the outputs have in common.                           *)
(***************************************************************************)
EXTENDS GRICollection, TLAPS

\* Where AcquireData() may have left data, and the device is in use.
InnerLoop == {"InnerRun", "InnerExit", "AcquireData", "FlushBuffer"}

HoldingInv == holding # {} => pc \in InnerLoop \union {"FlushAccumulators"}

AcquiringInv ==
  acquiring => \/ pc \in InnerLoop
               \/ pc \in {"FlushAccumulators", "StopDataAcquisition"}
               \/ forceQuit

IInv == TypeOK /\ HoldingInv /\ AcquiringInv

-----------------------------------------------------------------------------

\* A look at a flag, or a call of a method that changes nothing, that goes
\* from one place to another outside of the critical ones, or stays within
\* them, keeps the invariant.
LEMMA MovePreserves ==
  ASSUME IInv, NEW from, NEW to \in PCs,
         pc = from, pc' = to, UNCHANGED <<flagVars, dataVars, acquiring>>,
         from # "AcquireData" \/ toPost = {},
         from \in InnerLoop => to \in InnerLoop \union {"FlushAccumulators"},
         from \notin {"FlushAccumulators", "StopDataAcquisition"}
  PROVE  IInv'
<1>1. TypeOK'
  BY DEF IInv, TypeOK, flagVars, dataVars
<1>2. HoldingInv'
  BY DEF IInv, HoldingInv, flagVars, dataVars
<1>3. AcquiringInv'
  BY DEF IInv, AcquiringInv, flagVars, dataVars
<1> QED
  BY <1>1, <1>2, <1>3 DEF IInv

\* The calls of other threads do not touch what the thread holds.
LEMMA FlagsPreserve ==
  ASSUME IInv,
         StartCollection \/ StopCollection \/ QuitDAQ \/ ForceQuitDAQ
           \/ Stop \/ WriteExitFlag
  PROVE  IInv'
<1>1. /\ UNCHANGED <<pc, toPost, holding, acquiring>>
      /\ forceQuit => forceQuit'
  BY DEF StartCollection, StopCollection, QuitDAQ, ForceQuitDAQ, Stop,
         WriteExitFlag, dataVars
<1>2. TypeOK'
  BY DEF IInv, TypeOK, StartCollection, StopCollection, QuitDAQ,
         ForceQuitDAQ, Stop, WriteExitFlag, dataVars
<1>3. HoldingInv' /\ AcquiringInv'
  BY <1>1 DEF IInv, HoldingInv, AcquiringInv
<1> QED
  BY <1>2, <1>3 DEF IInv

LEMMA InitEstablishes == Init => IInv
BY DEF Init, IInv, TypeOK, HoldingInv, AcquiringInv, PCs

LEMMA AcquirePreserves ==
  ASSUME IInv, Acquire
  PROVE  IInv'
<1>1. CASE Call("OpenRunTimeControl", "StartDataAcquisition")
  BY <1>1, MovePreserves DEF Call, Goto, PCs, InnerLoop
<1>2. CASE StartDataAcquisition
  <2>1. TypeOK'
    BY <1>2 DEF IInv, TypeOK, StartDataAcquisition, Goto, flagVars, PCs
  <2>2. HoldingInv' /\ AcquiringInv'
    BY <1>2 DEF HoldingInv, AcquiringInv, InnerLoop, StartDataAcquisition,
                Goto
  <2> QED
    BY <2>1, <2>2 DEF IInv
<1>3. CASE InnerRun
  BY <1>3, MovePreserves DEF InnerRun, LoadRunFlag, Goto, PCs, InnerLoop
<1>4. CASE InnerExit
  <2>1. TypeOK'
    BY <1>4 DEF IInv, TypeOK, InnerExit, Goto, flagVars, PCs
  <2>2. HoldingInv' /\ AcquiringInv'
    BY <1>4 DEF IInv, HoldingInv, AcquiringInv, InnerLoop, InnerExit, Goto,
                flagVars
  <2> QED
    BY <2>1, <2>2 DEF IInv
<1>5. CASE \E o \in Outputs : PostData(o)
  <2> PICK o \in Outputs : PostData(o)
    BY <1>5
  <2>1. TypeOK'
    BY DEF IInv, TypeOK, PostData, flagVars
  <2>2. HoldingInv' /\ AcquiringInv'
    BY DEF IInv, HoldingInv, AcquiringInv, InnerLoop, PostData, flagVars
  <2> QED
    BY <2>1, <2>2 DEF IInv
<1>6. CASE AcquireDataReturns
  BY <1>6, MovePreserves DEF AcquireDataReturns, Call, Goto, PCs, InnerLoop
<1>7. CASE Call("FlushBuffer", "InnerRun")
  BY <1>7, MovePreserves DEF Call, Goto, PCs, InnerLoop
<1>8. CASE FlushAccumulators
  <2>1. TypeOK'
    BY <1>8 DEF IInv, TypeOK, FlushAccumulators, Goto, flagVars, PCs
  <2>2. HoldingInv' /\ AcquiringInv'
    BY <1>8 DEF HoldingInv, AcquiringInv, FlushAccumulators, Goto
  <2> QED
    BY <2>1, <2>2 DEF IInv
<1>9. CASE StopDataAcquisition
  <2>1. TypeOK'
    BY <1>9 DEF IInv, TypeOK, StopDataAcquisition, Goto, flagVars, dataVars,
                PCs
  <2>2. HoldingInv' /\ AcquiringInv'
    BY <1>9 DEF IInv, HoldingInv, AcquiringInv, InnerLoop,
                StopDataAcquisition, Goto, flagVars, dataVars
  <2> QED
    BY <2>1, <2>2 DEF IInv
<1> QED
  BY <1>1, <1>2, <1>3, <1>4, <1>5, <1>6, <1>7, <1>8, <1>9 DEF Acquire

LEMMA NextPreserves ==
  ASSUME IInv, [Next]_vars
  PROVE  IInv'
<1>1. CASE StartThread
  <2>1. TypeOK'
    BY <1>1 DEF IInv, TypeOK, StartThread, dataVars, PCs
  <2>2. HoldingInv' /\ AcquiringInv'
    BY <1>1 DEF IInv, HoldingInv, AcquiringInv, InnerLoop, StartThread,
                dataVars
  <2> QED
    BY <2>1, <2>2 DEF IInv
<1>2. CASE StartCollection \/ StopCollection \/ QuitDAQ \/ ForceQuitDAQ
             \/ Stop \/ WriteExitFlag
  BY <1>2, FlagsPreserve
<1>3. CASE Connect
  BY <1>3, MovePreserves DEF Connect, Call, Goto, PCs, InnerLoop
<1>4. CASE AwaitStart
  BY <1>4, MovePreserves
     DEF AwaitStart, LoadRunFlag, LoadExitFlag, Goto, PCs, InnerLoop
<1>5. CASE LoopExit
  BY <1>5, MovePreserves DEF LoopExit, LoadExitFlag, Goto, PCs, InnerLoop
<1>6. CASE Acquire
  BY <1>6, AcquirePreserves
<1>7. CASE AwaitRestart
  BY <1>7, MovePreserves
     DEF AwaitRestart, LoadRunFlag, LoadExitFlag, Goto, PCs, InnerLoop
<1>8. CASE Terminate
  BY <1>8, MovePreserves DEF Terminate, Call, Goto, PCs, InnerLoop
<1>9. CASE UNCHANGED vars
  BY <1>9 DEF vars, flagVars, dataVars, IInv, TypeOK, HoldingInv,
              AcquiringInv
<1> QED
  BY <1>1, <1>2, <1>3, <1>4, <1>5, <1>6, <1>7, <1>8, <1>9 DEF Next, Run

-----------------------------------------------------------------------------
(* The results.                                                            *)

\* The strengthened invariant of run() holds in every state.
THEOREM Invariance == Spec => []IInv
<1>1. Init => IInv
  BY InitEstablishes
<1>2. IInv /\ [Next]_vars => IInv'
  BY NextPreserves
<1> QED
  BY <1>1, <1>2, PTL DEF Spec

\* Data that an accumulator took is posted before the next acquisition
\* empties it and before the thread ends, for any number of outputs and
\* whatever the other threads do to the flags (GRIDAQThread.cpp:100-104).
THEOREM TakenIsPosted == Spec => []NothingTakenIsDropped
<1>1. IInv => NothingTakenIsDropped
  BY DEF IInv, HoldingInv, InnerLoop, NothingTakenIsDropped
<1> QED
  BY <1>1, Invariance, PTL

\* The device is not opened a second time or shut down while it is in use,
\* unless ForceQuitDAQ() was called (GRIDAQThread.h:240-251).
THEOREM DeviceIsClosed == Spec => []DeviceIsBracketed
<1>1. IInv => DeviceIsBracketed
  BY DEF IInv, AcquiringInv, InnerLoop, DeviceIsBracketed
<1> QED
  BY <1>1, Invariance, PTL
-----------------------------------------------------------------------------
(* The outputs of the thread.  Between two acquisitions the windows of all  *)
(* have moved equally far; within one, those that were posted to have moved *)
(* to where the events took them, all or none.                              *)

FullVars == <<vars, windowVars>>

\* Where the windows of an output must be when those of all began at m.
MovedFrom(m, o) ==
  IF pc = "AcquireData" /\ o \notin toPost /\ TRUE \in seen /\ reach > m
  THEN reach ELSE m

Aligned == \E m \in 0 .. MaxReach : \A o \in Outputs : moved[o] = MovedFrom(m, o)

OneFlagSeen == pc = "AcquireData" /\ seen = {} => toPost = Outputs

CollectionInv ==
  /\ CollectionTypeOK
  /\ OneFlagSeen
  /\ ~ split => Aligned /\ seen # BOOLEAN
  /\ OutputsInStep

-----------------------------------------------------------------------------

\* What the windows depend on in a step of run().
LEMMA RunMoves ==
  ASSUME TypeOK, Run
  PROVE  /\ pc = "StartDataAcquisition" => pc' = "InnerRun"
         /\ pc = "FlushAccumulators" => pc' = "StopDataAcquisition"
         /\ pc' = "AcquireData" =>
              \/ pc = "InnerExit" /\ toPost' = Outputs
              \/ pc = "AcquireData" /\ \E o \in toPost : toPost' = toPost \ {o}
         /\ pc = "AcquireData" /\ pc' # "AcquireData" =>
              toPost = {} /\ toPost' = {}
<1>1. CASE Connect \/ AwaitStart \/ LoopExit \/ AwaitRestart \/ Terminate
  BY <1>1 DEF Connect, AwaitStart, LoopExit, AwaitRestart, Terminate, Call,
              LoadRunFlag, LoadExitFlag, Goto
<1>2. CASE Acquire
  <2>1. CASE \E o \in Outputs : PostData(o)
    BY <2>1 DEF PostData
  <2>2. CASE AcquireDataReturns
    BY <2>2 DEF AcquireDataReturns, Call, Goto, dataVars
  <2>3. CASE InnerExit
    BY <2>3 DEF InnerExit, Goto
  <2>4. CASE \/ Call("OpenRunTimeControl", "StartDataAcquisition")
             \/ StartDataAcquisition \/ InnerRun
             \/ Call("FlushBuffer", "InnerRun")
             \/ FlushAccumulators \/ StopDataAcquisition
    BY <2>4 DEF Call, StartDataAcquisition, InnerRun, LoadRunFlag,
                FlushAccumulators, StopDataAcquisition, Goto
  <2> QED
    BY <1>2, <2>1, <2>2, <2>3, <2>4 DEF Acquire
<1> QED
  BY <1>1, <1>2 DEF Run

\* A step of the thread with its accumulators is a step of the thread.
LEMMA CollectionStep ==
  ASSUME [CollectionNext]_FullVars
  PROVE  [Next]_vars
BY DEF CollectionNext, RunAndPost, Calls, Next, FullVars

LEMMA CollectionInitEstablishes == CollectionInit => CollectionInv
<1> SUFFICES ASSUME CollectionInit PROVE CollectionInv
  OBVIOUS
<1>1. CollectionTypeOK
  <2>1. TypeOK
    BY InitEstablishes DEF CollectionInit, IInv
  <2>2. 0 \in 0 .. MaxReach
    BY ReachAssumption
  <2> QED
    BY <2>1, <2>2 DEF CollectionInit, CollectionTypeOK
<1>2. Aligned
  <2>1. \A o \in Outputs : moved[o] = MovedFrom(0, o)
    BY DEF CollectionInit, Init, MovedFrom
  <2> QED
    BY <2>1, ReachAssumption DEF Aligned
<1> QED
  BY <1>1, <1>2
     DEF CollectionInit, Init, CollectionInv, OneFlagSeen, OutputsInStep

\* One post moves the windows of its output to where those of the outputs
\* before it are, as long as all saw the same run flag.
LEMMA AccumulatePreserves ==
  ASSUME CollectionInv, TypeOK', Run, NEW o \in Outputs, Accumulate(o)
  PROVE  CollectionInv'
<1>1. pc' = "AcquireData" /\ toPost' = toPost \ {o}
  BY RunMoves DEF CollectionInv, CollectionTypeOK, Accumulate
<1>2. CollectionTypeOK'
  BY DEF CollectionInv, CollectionTypeOK, Accumulate, TypeOK
<1>3. OneFlagSeen'
  BY DEF OneFlagSeen, Accumulate
<1>4. ASSUME ~ split'
      PROVE  Aligned' /\ seen' # BOOLEAN
  <2>1. ~ split /\ seen' # BOOLEAN
    BY <1>4 DEF Accumulate
  <2> PICK m \in 0 .. MaxReach : \A p \in Outputs : moved[p] = MovedFrom(m, p)
    BY <2>1 DEF CollectionInv, Aligned
  <2>2. seen \subseteq {runFlag}
    BY <2>1 DEF CollectionInv, CollectionTypeOK, TypeOK, Accumulate
  <2>3. seen' = {runFlag}
    BY <2>2 DEF Accumulate
  <2>4. SUFFICES ASSUME NEW p \in Outputs
                 PROVE  moved'[p] = MovedFrom(m, p)'
    BY <2>1 DEF Aligned
  <2>5. seen = {} => toPost = Outputs
    BY DEF CollectionInv, OneFlagSeen, Accumulate
  <2>6. CASE p = o
    BY <1>1, <2>3, <2>6, ReachAssumption
       DEF MovedFrom, Accumulate, CollectionInv, CollectionTypeOK, TypeOK
  <2>7. CASE p # o
    BY <1>1, <2>2, <2>3, <2>5, <2>7, ReachAssumption
       DEF MovedFrom, Accumulate, CollectionInv, CollectionTypeOK, TypeOK
  <2> QED
    BY <2>6, <2>7
<1>5. OutputsInStep'
  BY DEF CollectionInv, OutputsInStep, Accumulate
<1> QED
  BY <1>2, <1>3, <1>4, <1>5 DEF CollectionInv

LEMMA CollectionNextPreserves ==
  ASSUME CollectionInv, IInv', [CollectionNext]_FullVars
  PROVE  CollectionInv'
<1>0. TypeOK /\ TypeOK'
  BY DEF CollectionInv, CollectionTypeOK, IInv
<1>1. ASSUME UNCHANGED windowVars,
             pc' = "AcquireData" => pc = "AcquireData",
             pc = "AcquireData" => toPost' = toPost,
             pc = "AcquireData" /\ pc' # "AcquireData" => toPost = {}
      PROVE  CollectionInv'
  <2>1. CollectionTypeOK'
    BY <1>0, <1>1 DEF CollectionInv, CollectionTypeOK, windowVars
  <2>2. OneFlagSeen'
    BY <1>1 DEF CollectionInv, OneFlagSeen, windowVars
  <2>3. ASSUME ~ split
        PROVE  Aligned'
    <3> PICK m \in 0 .. MaxReach : \A o \in Outputs : moved[o] = MovedFrom(m, o)
      BY <2>3 DEF CollectionInv, Aligned
    <3>1. CASE pc = "AcquireData" /\ pc' # "AcquireData"
      <4>1. PICK n \in 0 .. MaxReach :
                   n = IF TRUE \in seen /\ reach > m THEN reach ELSE m
        BY DEF CollectionInv, CollectionTypeOK
      <4>2. \A o \in Outputs : moved'[o] = MovedFrom(n, o)'
        BY <1>1, <3>1, <4>1 DEF MovedFrom, windowVars
      <4> QED
        BY <4>2 DEF Aligned
    <3>2. CASE pc' = "AcquireData" \/ pc # "AcquireData"
      <4>1. \A o \in Outputs : moved'[o] = MovedFrom(m, o)'
        BY <1>1, <3>2 DEF MovedFrom, windowVars
      <4> QED
        BY <4>1 DEF Aligned
    <3> QED
      BY <3>1, <3>2
  <2> QED
    BY <1>1, <2>1, <2>2, <2>3 DEF CollectionInv, OutputsInStep, windowVars
<1>2. CASE RunAndPost
  <2>1. CASE InitializeAccumulators
    <3>1. pc' = "InnerRun"
      BY <1>0, <1>2, <2>1, RunMoves DEF RunAndPost, InitializeAccumulators
    <3>2. Aligned'
      BY <2>1, <3>1, ReachAssumption
         DEF Aligned, MovedFrom, InitializeAccumulators
    <3> QED
      BY <1>0, <2>1, <3>1, <3>2, ReachAssumption
         DEF CollectionInv, CollectionTypeOK, OneFlagSeen, OutputsInStep,
             InitializeAccumulators
  <2>2. CASE EventsAcquired
    <3>1. toPost' = Outputs
      BY <1>0, <1>2, <2>2, RunMoves DEF RunAndPost, EventsAcquired
    <3>2. ~ split => Aligned'
      BY <2>2, <3>1 DEF CollectionInv, Aligned, MovedFrom, EventsAcquired
    <3> QED
      BY <1>0, <2>2, <3>1, <3>2
         DEF CollectionInv, CollectionTypeOK, OneFlagSeen, OutputsInStep,
             EventsAcquired
  <2>3. CASE \E o \in Outputs : Accumulate(o)
    BY <1>0, <1>2, <2>3, AccumulatePreserves DEF RunAndPost
  <2>4. CASE FlushBuffers
    <3>1. pc' = "StopDataAcquisition"
      BY <1>0, <1>2, <2>4, RunMoves DEF RunAndPost, FlushBuffers
    <3>2. ASSUME ~ split
          PROVE  apart' = apart /\ Aligned'
      <4> PICK m \in 0 .. MaxReach :
                 \A o \in Outputs : moved[o] = MovedFrom(m, o)
        BY <3>2 DEF CollectionInv, Aligned
      <4>1. \A o \in Outputs : moved[o] = m
        BY <2>4 DEF MovedFrom, FlushBuffers
      <4>2. \A o \in Outputs : moved'[o] = MovedFrom(m, o)'
        BY <2>4, <3>1, <4>1 DEF MovedFrom, FlushBuffers
      <4>3. apart' = apart
        BY <2>4, <4>1 DEF CollectionInv, CollectionTypeOK, FlushBuffers
      <4> QED
        BY <4>2, <4>3 DEF Aligned
    <3> QED
      BY <1>0, <2>4, <3>1, <3>2
         DEF CollectionInv, CollectionTypeOK, OneFlagSeen, OutputsInStep,
             FlushBuffers
  <2>5. CASE OtherSteps
    <3>1. pc = "AcquireData" /\ pc' # "AcquireData" => toPost = {}
      BY <1>0, <1>2, RunMoves DEF RunAndPost
    <3> QED
      BY <1>1, <2>5, <3>1 DEF OtherSteps
  <2> QED
    BY <1>2, <2>1, <2>2, <2>3, <2>4, <2>5 DEF RunAndPost
<1>3. CASE Calls
  <2>1. /\ UNCHANGED toPost
        /\ pc' # pc => pc = "NotStarted" /\ pc' = "ConnectToDAQ"
    <3>1. CASE StartThread
      BY <3>1 DEF StartThread, dataVars
    <3>2. CASE StartCollection \/ StopCollection \/ QuitDAQ \/ ForceQuitDAQ
                 \/ Stop \/ WriteExitFlag
      BY <3>2 DEF StartCollection, StopCollection, QuitDAQ, ForceQuitDAQ,
                  Stop, WriteExitFlag, dataVars
    <3> QED
      BY <1>3, <3>1, <3>2 DEF Calls
  <2>2. /\ pc' = "AcquireData" => pc = "AcquireData"
        /\ ~ (pc = "AcquireData" /\ pc' # "AcquireData")
    BY <2>1
  <2>3. UNCHANGED windowVars
    BY <1>3 DEF Calls
  <2> QED
    BY <1>1, <2>1, <2>2, <2>3
<1>4. CASE UNCHANGED FullVars
  BY <1>1, <1>4 DEF FullVars, vars, dataVars
<1> QED
  BY <1>2, <1>3, <1>4 DEF CollectionNext

\* The accumulators add nothing to what the thread may do, so that all that
\* is proved of the thread holds of both together (GRIDAQThread.cpp:51-124).
THEOREM CollectionImplementsThread == CollectionSpec => Spec
<1>1. CollectionInit => Init
  BY DEF CollectionInit
<1>2. [CollectionNext]_<<vars, windowVars>> => [Next]_vars
  BY CollectionStep DEF FullVars
<1> QED
  BY <1>1, <1>2, PTL DEF CollectionSpec, Spec

THEOREM CollectionInvariance == CollectionSpec => []CollectionInv
<1>1. CollectionInit => CollectionInv
  BY CollectionInitEstablishes
<1>2. CollectionInv /\ IInv' /\ [CollectionNext]_<<vars, windowVars>>
        => CollectionInv'
  BY CollectionNextPreserves DEF FullVars
<1> QED
  BY <1>1, <1>2, CollectionImplementsThread, Invariance, PTL DEF CollectionSpec

\* For any number of outputs, however far events move the windows, and any use
\* of the flags: only a stop between two posts of one acquisition sets the
\* outputs apart (GRIDAQThread.h:441).
THEOREM OutputsStayInStep == CollectionSpec => []OutputsInStep
<1>1. CollectionInv => OutputsInStep
  BY DEF CollectionInv
<1> QED
  BY <1>1, CollectionInvariance, PTL

\* The variables have their types.
THEOREM CollectionTypeCorrect == CollectionSpec => []CollectionTypeOK
<1>1. CollectionInv => CollectionTypeOK
  BY DEF CollectionInv
<1> QED
  BY <1>1, CollectionInvariance, PTL
=============================================================================
