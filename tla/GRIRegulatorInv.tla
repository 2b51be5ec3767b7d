---------------------------- MODULE GRIRegulatorInv ----------------------------
(***************************************************************************)
(* The inductive invariant of the data path, for the proofs and for TLC.   *)
(*                                                                         *)
(* None of the safety invariants of GRIRegulator is inductive.  IInv adds  *)
(* what each of them rests on: who holds the buffer's lock (LockInv), how  *)
(* far the write in progress has gone (WriteInv), which packets still have *)
(* their bytes (ContentInv), and how the marker of the reader, the         *)
(* counters of the data block and the deliveries follow each other         *)
(* (ReadInv).                                                              *)
(***************************************************************************)
EXTENDS GRIRegulator

LockedWritePCs == {"SetBusy", "WriteBytes", "ClearBusy", "WriteUnlock"}
LockedReadPCs  == {"CopyPacket", "ReadUnlock"}
CountedReadPCs == {"SizeofPacket", "ReadLock", "CopyPacket"}
ServedReadPCs  == CountedReadPCs \union {"ReadUnlock", "DeletePacket"}

\* Only the writer of a block writes it, and only the reader that the data
\* block knows gets past UpdateReader.
RoleInv ==
  \A t \in Threads :
    /\ pc[t] \in WritePCs => Writer[call[t].block] = t
    /\ pc[t] \in ServedReadPCs => FirstLinked[call[t].block] = t
    /\ pc[t] # "WaitOnQueue"

\* The lock of a block excludes its writer from its readers.
LockInv(b) ==
  /\ writeLock[b] = IF In(Writer[b], b, LockedWritePCs)
                    THEN Writer[b] ELSE None
  /\ \A t \in Threads : t \in readLocks[b] <=> In(t, b, LockedReadPCs)
  /\ writeLock[b] # None => readLocks[b] = {}

\* The write in progress on b has stored a part of its packet.
Storing(b) ==
  LET w == Writer[b] IN
  \/ In(w, b, {"WriteBytes"}) /\ call[w].index # 0
  \/ In(w, b, {"ClearBusy"})

\* The packet that the write in progress is storing.
LastOf(b) == buffer[b].packets[NextPacket(buffer[b])]

\* The progress of a write, from the counted packet to the posted packet.
WriteInv(b) ==
  LET w == Writer[b]
      n == NextPacket(buffer[b])
  IN
  /\ buffer[b].nulls = {}
  /\ buffer[b].busy <=> In(w, b, {"WriteBytes", "ClearBusy"})
  /\ In(w, b, WritePCs) => call[w].packet + 1 = writeCounter[b]
  /\ In(w, b, {"WriteLock", "SetBusy", "WriteBytes", "ClearBusy"})
       => Len(posted[b]) + 1 = writeCounter[b]
  /\ ~ In(w, b, {"WriteLock", "SetBusy", "WriteBytes", "ClearBusy"})
       => Len(posted[b]) = writeCounter[b]
  /\ n = IF \/ In(w, b, {"WriteLock", "SetBusy"})
            \/ In(w, b, {"WriteBytes"}) /\ call[w].index = 0
         THEN writeCounter[b] - 1
         ELSE writeCounter[b]
  /\ In(w, b, {"WriteLock", "SetBusy"}) => call[w].index = 0
  /\ In(w, b, {"WriteBytes"}) /\ call[w].index # 0
       => call[w].index < call[w].size
  /\ In(w, b, {"ClearBusy"}) => call[w].index = StoredBytes(call[w].size)
  /\ Storing(b) => LastOf(b) = [call |-> writeCounter[b], bytes |-> call[w].index]

\* A posted packet keeps its place, and its bytes until it is cleared.
ContentInv(b) ==
  \A i \in 1 .. Len(posted[b]) :
    /\ buffer[b].packets[i].call = posted[b][i].call
    /\ i > firstPacket[b] => buffer[b].packets[i].bytes = posted[b][i].bytes

\* What the reader was given so far is what was posted.
InOrder(b) ==
  \A i \in 1 .. Len(Delivered(b)) : SamePacket(Delivered(b)[i], posted[b][i])

\* The reader's deliveries, its marker and the counters of the data block.
ReadInv(b) ==
  LET r == FirstLinked[b]
      k == Len(Delivered(b))
  IN
  /\ buffer[b].marker[r] = k
  /\ k <= Len(posted[b])
  /\ InOrder(b)
  /\ firstPacket[b] <= k
  /\ readCounter[b] = IF In(r, b, CountedReadPCs) THEN k + 1 ELSE k
  /\ In(r, b, {"LoadBusy", "LoadSize", "Wait", "Asleep", "UpdateReader"})
       => call[r].packet = k
  /\ In(r, b, {"UpdateReader"} \union CountedReadPCs)
       => k < NextPacket(buffer[b])

BlockInv == \A b \in Blocks :
              LockInv(b) /\ WriteInv(b) /\ ContentInv(b) /\ ReadInv(b)

\* The inductive invariant.
IInv == TypeOK /\ RoleInv /\ BlockInv
=============================================================================
