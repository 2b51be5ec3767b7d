--------------------------- MODULE GRILoadBalancing ---------------------------
(***************************************************************************)
(* Load balancing: a thread that has read a packet from a data block       *)
(* lowers the priority of the block's writer, or raises its own, when too  *)
(* many packets are waiting.  No lock protects it, and readers of other    *)
(* blocks may do the same to the same writer.                              *)
(*                                                                         *)
(* A data block has one writer and one reader (its constructor takes one). *)
(* A packet is only counted here; GRIRegulator has what becomes of it, and *)
(* DeletePacket() in detail.  Priorities are the numbers of QThread, which *)
(* refuses InheritPriority and takes any other number.                     *)
(***************************************************************************)
EXTENDS Integers

CONSTANTS
  Blocks,       \* the data blocks
  Threads,      \* the process threads
  Writer,       \* writer_ of each block
  Reader,       \* the reader in readers_ of each block
  MaxPackets    \* bound on the packets of a block

Idle == 0           \* QThread::IdlePriority
Normal == 3
TimeCritical == 6
Inherit == 7

Threshold == 2      \* MAX_THRESHOLD; LOAD_BALANCING_FACTOR of it is 3/2
Saturation == 1     \* num_packets_to_sat_ and num_packets_from_sat_

VARIABLES
  written,      \* write_counter_ of each block
  read,         \* read_counter of each block's reader
  first,        \* first_packet_ of each block
  priority,     \* priority() of each thread
  toSat,        \* last_adjustment_to_sat_ of each thread
  fromSat,      \* last_adjustment_from_sat_ of each thread
  call          \* where each thread is in LoadBalancing(), and its variables

blockVars == <<written, read, first>>
threadVars == <<priority, toSat, fromSat>>
vars == <<blockVars, threadVars, call>>

\* at is the place, block the data block, of the thread whose priority is
\* changed, step what is added to it, current what was read of it.
NoCall == [at |-> "None"]

Init ==
  /\ written = [b \in Blocks |-> 0]
  /\ read = [b \in Blocks |-> 0]
  /\ first = [b \in Blocks |-> 0]
  /\ priority = [t \in Threads |-> Normal]
  /\ toSat = [t \in Threads |-> 0]
  /\ fromSat = [t \in Threads |-> 0]
  /\ call = [t \in Threads |-> NoCall]

-----------------------------------------------------------------------------

IncrementPacketCount(t) ==
  /\ toSat' = [toSat EXCEPT ![t] = @ + 1]
  /\ fromSat' = [fromSat EXCEPT ![t] = @ + 1]

UpdateWriter(b) ==
  /\ call[Writer[b]] = NoCall
  /\ written[b] < MaxPackets
  /\ written' = [written EXCEPT ![b] = @ + 1]
  /\ IncrementPacketCount(Writer[b])
  /\ UNCHANGED <<read, first, priority, call>>

\* There is a packet; the call of LoadBalancing() follows.
UpdateReader(b) ==
  LET t == Reader[b]
  IN  /\ call[t] = NoCall
      /\ read[b] < written[b]
      /\ read' = [read EXCEPT ![b] = @ + 1]
      /\ IncrementPacketCount(t)
      /\ call' = [call EXCEPT ![t] = [at |-> "LoadBalancing", block |-> b]]
      /\ UNCHANGED <<written, first, priority>>

\* DeletePacket(), and the return if not much imbalance is in the system.
LoadBalancing(t) ==
  LET b == call[t].block
  IN  /\ call[t].at = "LoadBalancing"
      /\ first' = [first EXCEPT ![b] = IF read[b] > @ THEN read[b] ELSE @]
      /\ call' = [call EXCEPT ![t] =
                    IF written[b] - first'[b] < Threshold THEN NoCall
                    ELSE [at |-> "Choose", block |-> b]]
      /\ UNCHANGED <<written, read, threadVars>>

\* The coin rand() % 2 falls, the priority of the one to change is looked at.
LowerWriter(t) ==
  LET w == Writer[call[t].block]
  IN  /\ call[t].at = "Choose"
      /\ priority[w] > Idle
      /\ call' = [call EXCEPT ![t] = [at |-> "ChangePriority", of |-> w,
                                      step |-> -1]]
      /\ UNCHANGED <<blockVars, threadVars>>

RaiseReader(t) ==
  LET b == call[t].block
  IN  /\ call[t].at = "Choose"
      /\ call' = [call EXCEPT ![t] =
                    IF 2 * (read[b] - first[b]) > 3 /\ priority[t] < TimeCritical
                    THEN [at |-> "ChangePriority", of |-> t, step |-> 1]
                    ELSE NoCall]
      /\ UNCHANGED <<blockVars, threadVars>>

\* Away from the normal priority it is the one count that is needed, back to
\* it the other.
Away(current, step) == IF step > 0 THEN current >= Normal ELSE current <= Normal

\* ChangePriority() reads the priority and the count ...
ChangePriority(t) ==
  LET c == call[t]
      count == IF Away(priority[c.of], c.step) THEN toSat[c.of] ELSE fromSat[c.of]
  IN  /\ c.at = "ChangePriority"
      /\ call' = [call EXCEPT ![t] =
                    IF count < Saturation THEN NoCall
                    ELSE [at |-> "SetPriority", of |-> c.of, step |-> c.step,
                          current |-> priority[c.of]]]
      /\ UNCHANGED <<blockVars, threadVars>>

\* ... sets the priority to the number next to the one that it read ...
SetPriority(t) ==
  LET c == call[t]
  IN  /\ c.at = "SetPriority"
      /\ priority' = IF c.current + c.step = Inherit THEN priority
                     ELSE [priority EXCEPT ![c.of] = c.current + c.step]
      /\ call' = [call EXCEPT ![t].at = "Reset"]
      /\ UNCHANGED <<blockVars, toSat, fromSat>>

\* ... and starts to count anew.
Reset(t) ==
  LET c == call[t]
  IN  /\ c.at = "Reset"
      /\ IF Away(c.current, c.step)
         THEN toSat' = [toSat EXCEPT ![c.of] = 0] /\ fromSat' = fromSat
         ELSE fromSat' = [fromSat EXCEPT ![c.of] = 0] /\ toSat' = toSat
      /\ call' = [call EXCEPT ![t] = NoCall]
      /\ UNCHANGED <<blockVars, priority>>

Next ==
  \/ \E b \in Blocks : UpdateWriter(b) \/ UpdateReader(b)
  \/ \E t \in Threads :
        \/ LoadBalancing(t) \/ LowerWriter(t) \/ RaiseReader(t)
        \/ ChangePriority(t) \/ SetPriority(t) \/ Reset(t)

Spec == Init /\ [][Next]_vars

-----------------------------------------------------------------------------

\* A priority goes from idle to time-critical, which are the saturation of
\* GRIProcessThread.h:59-61, and LoadBalancing() lowers that of the writer "if
\* possible" (GRIDataBlock.cpp:149).  It also lowers it if another reader has
\* done so after it looked.
PriorityIsPossible == \A t \in Threads : priority[t] \in Idle .. TimeCritical
=============================================================================
