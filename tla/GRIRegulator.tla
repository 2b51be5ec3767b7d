---------------------------- MODULE GRIRegulator ----------------------------
(***************************************************************************)
(* The data path of the framework: process threads post packets to and     *)
(* read packets from the buffers of the memory manager through the         *)
(* regulator (core/GRIRegulator, core/GRIMemoryManager, core/GRIDataBlock  *)
(* over core/GRIBuffer).                                                   *)
(*                                                                         *)
(* A data block is named by its writer and buffer.  An action is what a    *)
(* thread does between two points where another thread can intervene: the  *)
(* loads of BufferSize() that no lock protects, the acquisition and the    *)
(* release of the buffer's lock, each byte written, the condition variable *)
(* buffer_ready_ and its mutex_.  What the threads compute between two     *)
(* calls is not modelled: an idle thread may call ReadMemory on a block it *)
(* is linked to, or WriteMemory on a block it writes, at any time.         *)
(***************************************************************************)
EXTENDS GRIBuffer

CONSTANTS
  Blocks,       \* the data blocks, each with one buffer
  Writer,       \* Writer[b] is the thread that posts to block b
  Linked,       \* Linked[b] is the set of threads linked to b as readers
  FirstLinked,  \* FirstLinked[b] is the reader of the GRIDataBlock that
                \*   FindData() returns: the first one created for b
  Sizes,        \* the sizes, in bytes, that WriteMemory is called with
  MaxWrites,    \* bound on the accepted WriteMemory calls of one block
  Switchable,   \* the blocks that are enabled and disabled while running
  None          \* no thread, no block

ASSUME LinksAssumption ==
  /\ Writer \in [Blocks -> Threads]
  /\ Linked \in [Blocks -> SUBSET Threads]
  /\ FirstLinked \in [Blocks -> Threads]
  /\ \A b \in Blocks : FirstLinked[b] \in Linked[b]
  /\ None \notin Threads
  /\ None \notin Blocks

ASSUME BoundsAssumption ==
  /\ Sizes \subseteq Nat
  /\ MaxWrites \in Nat
  /\ Switchable \subseteq Blocks

VARIABLES
  buffer,        \* buffer[b]: the GRIBuffer of block b
  writeLock,     \* writeLock[b]: the thread holding its lock for writing
  readLocks,     \* readLocks[b]: the threads holding its lock for reading
  enabled,       \* enabled[b]: is_enabled_ of the data block
  writeCounter,  \* writeCounter[b]: write_counter_ of the data block
  readCounter,   \* readCounter[b]: read_counter of its reader
  firstPacket,   \* firstPacket[b]: first_packet_ of the data block
  waiters,       \* the threads asleep on buffer_ready_
  mutex,         \* the thread that holds mutex_
  pc,            \* pc[t]: what thread t does next
  call,          \* call[t]: the arguments and locals of its current call
  posted,        \* history: posted[b], the packets completely written to b
  received       \* history: received[t][b], what ReadMemory gave t from b

blockVars   == <<enabled, writeCounter, readCounter, firstPacket>>
lockVars    == <<writeLock, readLocks>>
wakeVars    == <<waiters, mutex>>
historyVars == <<posted, received>>
vars == <<buffer, lockVars, blockVars, wakeVars, pc, call, historyVars>>

-----------------------------------------------------------------------------

ReadPCs == {"LoadBusy", "LoadSize", "Wait", "Asleep", "UpdateReader",
            "SizeofPacket", "ReadLock", "CopyPacket", "ReadUnlock",
            "DeletePacket", "WaitOnQueue"}

WritePCs == {"WriteLock", "SetBusy", "WriteBytes", "ClearBusy",
             "WriteUnlock", "WakeAll"}

PCs == {"Idle"} \union ReadPCs \union WritePCs

\* The null packet of a write of size 0 still takes one byte of the buffer.
StoredBytes(size) == IF size = 0 THEN 1 ELSE size

\* The locals of ReadMemory and WriteMemory: packet is packet_to_read or the
\* number of the packet written, size the size to write, index the next byte
\* to write, busy what was last loaded from busy_write_, length what
\* SizeofPacket returned.
Call == [block  : Blocks \union {None}, packet : Nat, size : Nat,
         index  : Nat, busy : BOOLEAN, length : Nat]

NewCall(b, p, n) == [block |-> b, packet |-> p, size   |-> n,
                     index |-> 0, busy |-> FALSE, length |-> 0]

NoCall == NewCall(None, 0, 0)

Posting  == [call : Nat \ {0}, bytes : Nat, size : Nat]
Delivery == [call : Nat \ {0}, bytes : Nat, length : Nat]

TypeOK ==
  /\ buffer \in [Blocks -> Buffer]
  /\ writeLock \in [Blocks -> Threads \union {None}]
  /\ readLocks \in [Blocks -> SUBSET Threads]
  /\ enabled \in [Blocks -> BOOLEAN]
  /\ writeCounter \in [Blocks -> Nat]
  /\ readCounter \in [Blocks -> Nat]
  /\ firstPacket \in [Blocks -> Nat]
  /\ waiters \subseteq Threads
  /\ mutex \in Threads \union {None}
  /\ pc \in [Threads -> PCs]
  /\ call \in [Threads -> Call]
  /\ \A t \in Threads : call[t].block = None <=> pc[t] = "Idle"
  /\ posted \in [Blocks -> Seq(Posting)]
  /\ received \in [Threads -> [Blocks -> Seq(Delivery)]]

Init ==
  /\ buffer = [b \in Blocks |-> EmptyBuffer]
  /\ writeLock = [b \in Blocks |-> None]
  /\ readLocks = [b \in Blocks |-> {}]
  /\ enabled = [b \in Blocks |-> TRUE]
  /\ writeCounter = [b \in Blocks |-> 0]
  /\ readCounter = [b \in Blocks |-> 0]
  /\ firstPacket = [b \in Blocks |-> 0]
  /\ waiters = {}
  /\ mutex = None
  /\ pc = [t \in Threads |-> "Idle"]
  /\ call = [t \in Threads |-> NoCall]
  /\ posted = [b \in Blocks |-> <<>>]
  /\ received = [t \in Threads |-> [b \in Blocks |-> <<>>]]

-----------------------------------------------------------------------------
(* Steps of a call.                                                        *)

Goto(t, from, to) == pc[t] = from /\ pc' = [pc EXCEPT ![t] = to]

Return(t, from) ==
  /\ Goto(t, from, "Idle")
  /\ call' = [call EXCEPT ![t] = NoCall]

-----------------------------------------------------------------------------
(* GRIRegulator::WriteMemory, called by the writer of the block.           *)

\* FindData(), the check of is_enabled_ (a disabled block refuses the packet
\* and nothing changes), UpdateWriter(), which counts the packet before it is
\* written, and NextPacket(), which only this thread's writes change.
WriteMemory(t, b, n) ==
  /\ Writer[b] = t
  /\ enabled[b]
  /\ writeCounter[b] < MaxWrites
  /\ Goto(t, "Idle", "WriteLock")
  /\ writeCounter' = [writeCounter EXCEPT ![b] = @ + 1]
  /\ call' = [call EXCEPT ![t] =
                NewCall(b, NextPacket(buffer[b]), n)]
  /\ UNCHANGED <<buffer, lockVars, enabled, readCounter, firstPacket,
                 wakeVars, historyVars>>

\* Mutant: the readers that hold the lock are not waited for.
BufferWriteLockWithReaders(t) ==
  LET b == call[t].block IN
  /\ Goto(t, "WriteLock", "SetBusy")
  /\ writeLock[b] = None
  /\ writeLock' = [writeLock EXCEPT ![b] = t]
  /\ UNCHANGED <<buffer, readLocks, blockVars, wakeVars, call, historyVars>>

BufferWriteLock(t) ==
  LET b == call[t].block IN
  /\ Goto(t, "WriteLock", "SetBusy")
  /\ writeLock[b] = None
  /\ readLocks[b] = {}
  /\ writeLock' = [writeLock EXCEPT ![b] = t]
  /\ UNCHANGED <<buffer, readLocks, blockVars, wakeVars, call, historyVars>>

SetBusyWrite(t) ==
  LET b == call[t].block IN
  /\ Goto(t, "SetBusy", "WriteBytes")
  /\ buffer' = [buffer EXCEPT ![b] =
                  IF call[t].size = 0
                  THEN AddNullPacket([@ EXCEPT !.busy = TRUE], call[t].packet)
                  ELSE [@ EXCEPT !.busy = TRUE]]
  /\ UNCHANGED <<lockVars, blockVars, wakeVars, call, historyVars>>

\* One byte.  A byte that WriteToBuffer() refuses makes the call return false
\* with the lock held and busy_write_ set.
WriteByte(t) ==
  LET b == call[t].block
      c == call[t]
  IN
  /\ pc[t] = "WriteBytes"
  /\ IF CanWriteByte(buffer[b], c.packet, c.index)
     THEN /\ buffer' = [buffer EXCEPT ![b] =
                          WriteToBuffer(@, c.packet, c.index, writeCounter[b])]
          /\ call' = [call EXCEPT ![t].index = @ + 1]
          /\ IF c.index + 1 < c.size
             THEN UNCHANGED pc
             ELSE Goto(t, "WriteBytes", "ClearBusy")
     ELSE /\ Return(t, "WriteBytes")
          /\ UNCHANGED buffer
  /\ UNCHANGED <<lockVars, blockVars, wakeVars, historyVars>>

\* From here on the packet counts as written.  WakeAllOnQueue(), which
\* follows, finds nobody: see NeverWaitsOnQueue.
ClearBusyWrite(t) ==
  LET b == call[t].block IN
  /\ Goto(t, "ClearBusy", "WriteUnlock")
  /\ buffer' = [buffer EXCEPT ![b].busy = FALSE]
  /\ posted' = [posted EXCEPT ![b] =
                  Append(@, [call  |-> writeCounter[b],
                             bytes |-> StoredBytes(call[t].size),
                             size  |-> call[t].size])]
  /\ UNCHANGED <<lockVars, blockVars, wakeVars, call, received>>

\* Mutant: the lock is not released.
UnlockAfterWriteForgotten(t) ==
  /\ Goto(t, "WriteUnlock", "WakeAll")
  /\ UNCHANGED <<buffer, lockVars, blockVars, wakeVars, call, historyVars>>

UnlockAfterWrite(t) ==
  /\ Goto(t, "WriteUnlock", "WakeAll")
  /\ writeLock' = [writeLock EXCEPT ![call[t].block] = None]
  /\ UNCHANGED <<buffer, readLocks, blockVars, wakeVars, call, historyVars>>

\* buffer_ready_.wakeAll(): every thread asleep now, on any block.
WakeAll(t) ==
  /\ Return(t, "WakeAll")
  /\ waiters' = {}
  /\ UNCHANGED <<buffer, lockVars, blockVars, mutex, historyVars>>

-----------------------------------------------------------------------------
(* GRIRegulator::ReadMemory.                                               *)

\* FindData(), the check of is_enabled_ (a disabled block answers (0, NULL)
\* and nothing changes) and CurrentPacketPosition() of the calling thread.
ReadMemory(t, b) ==
  /\ t \in Linked[b]
  /\ enabled[b]
  /\ Goto(t, "Idle", "LoadBusy")
  /\ call' = [call EXCEPT ![t] =
                NewCall(b, CurrentPacket(buffer[b], t), 0)]
  /\ UNCHANGED <<buffer, lockVars, blockVars, wakeVars, historyVars>>

\* LastPacket() loads busy_write_, then size_, without the buffer's lock.
LoadBusy(t) ==
  /\ Goto(t, "LoadBusy", "LoadSize")
  /\ call' = [call EXCEPT ![t].busy = buffer[call[t].block].busy]
  /\ UNCHANGED <<buffer, lockVars, blockVars, wakeVars, historyVars>>

LoadSize(t) ==
  LET c == call[t]
      lastPacket == BufferSizeFrom(c.busy, NextPacket(buffer[c.block])) - 1
  IN
  /\ Goto(t, "LoadSize",
          IF lastPacket < c.packet THEN "Wait" ELSE "UpdateReader")
  /\ UNCHANGED <<buffer, lockVars, blockVars, wakeVars, call, historyVars>>

\* buffer_ready_.wait(&mutex_): Qt registers the thread and unlocks mutex_,
\* whoever holds it, in one step; ReadMemory never locked it.
Wait(t) ==
  /\ Goto(t, "Wait", "Asleep")
  /\ waiters' = waiters \union {t}
  /\ mutex' = None
  /\ UNCHANGED <<buffer, lockVars, blockVars, call, historyVars>>

\* A thread that was woken locks mutex_ before wait() returns; nothing but
\* the next wait() unlocks it.
WakeUp(t) ==
  /\ Goto(t, "Asleep", "LoadBusy")
  /\ t \notin waiters
  /\ mutex = None
  /\ mutex' = t
  /\ UNCHANGED <<buffer, lockVars, blockVars, waiters, call, historyVars>>

\* The data block found for b counts the packet for its own reader, before
\* the copy; any other thread gets (0, NULL).
UpdateReader(t) ==
  LET b == call[t].block IN
  /\ pc[t] = "UpdateReader"
  /\ IF t = FirstLinked[b]
     THEN /\ Goto(t, "UpdateReader", "SizeofPacket")
          /\ readCounter' = [readCounter EXCEPT ![b] = @ + 1]
          /\ UNCHANGED call
     ELSE /\ Return(t, "UpdateReader")
          /\ UNCHANGED readCounter
  /\ UNCHANGED <<buffer, lockVars, enabled, writeCounter, firstPacket,
                 wakeVars, historyVars>>

\* The length to allocate and to return, read without the buffer's lock.
SizeofPacket(t) ==
  LET b == call[t].block IN
  /\ Goto(t, "SizeofPacket", "ReadLock")
  /\ call' = [call EXCEPT ![t].length =
                PacketSize(buffer[b], CurrentPacket(buffer[b], t))]
  /\ UNCHANGED <<buffer, lockVars, blockVars, wakeVars, historyVars>>

BufferReadLock(t) ==
  LET b == call[t].block IN
  /\ Goto(t, "ReadLock", "CopyPacket")
  /\ writeLock[b] = None
  /\ readLocks' = [readLocks EXCEPT ![b] = @ \union {t}]
  /\ UNCHANGED <<buffer, writeLock, blockVars, wakeVars, call, historyVars>>

\* The copy, under the lock.  A packet that is not there yet makes the thread
\* wait in wait_queue_; NeverWaitsOnQueue says that this is dead code, and
\* what would follow it is not modelled.
CopyPacket(t) ==
  LET b == call[t].block
      p == CurrentPacket(buffer[b], t)
  IN
  /\ pc[t] = "CopyPacket"
  /\ IF p < BufferSize(buffer[b])
     THEN /\ Goto(t, "CopyPacket", "ReadUnlock")
          /\ buffer' = [buffer EXCEPT ![b] =
                          IncrementPacketMarker(ReadBytes(@, t, p), t)]
          /\ received' = [received EXCEPT ![t][b] =
                            Append(@,
                                   [call   |-> buffer[b].packets[p + 1].call,
                                    bytes  |-> PacketSize(buffer[b], p),
                                    length |-> call[t].length])]
     ELSE /\ Goto(t, "CopyPacket", "WaitOnQueue")
          /\ UNCHANGED <<buffer, received>>
  /\ UNCHANGED <<lockVars, blockVars, wakeVars, call, posted>>

\* Mutant: the lock is not released.
UnlockAfterReadForgotten(t) ==
  /\ Goto(t, "ReadUnlock", "DeletePacket")
  /\ UNCHANGED <<buffer, lockVars, blockVars, wakeVars, call, historyVars>>

UnlockAfterRead(t) ==
  LET b == call[t].block IN
  /\ Goto(t, "ReadUnlock", "DeletePacket")
  /\ readLocks' = [readLocks EXCEPT ![b] = @ \ {t}]
  /\ UNCHANGED <<buffer, writeLock, blockVars, wakeVars, call, historyVars>>

\* LoadBalancing() first clears, without the buffer's lock, the packets that
\* every reader of the data block has read.
DeletePacket(t) ==
  LET b == call[t].block
      lowestPacket == IF readCounter[b] < writeCounter[b]
                      THEN readCounter[b] ELSE writeCounter[b]
  IN
  /\ Return(t, "DeletePacket")
  /\ IF lowestPacket > firstPacket[b]
     THEN /\ buffer' = [buffer EXCEPT ![b] =
                          ClearPackets(@, firstPacket[b], lowestPacket)]
          /\ firstPacket' = [firstPacket EXCEPT ![b] = lowestPacket]
     ELSE UNCHANGED <<buffer, firstPacket>>
  /\ UNCHANGED <<lockVars, enabled, writeCounter, readCounter, wakeVars,
                 historyVars>>

-----------------------------------------------------------------------------

\* EnableDataBlock() and DisableDataBlock(), from any thread at any time.
SetEnabled(b, isEnabled) ==
  /\ b \in Switchable
  /\ enabled[b] # isEnabled
  /\ enabled' = [enabled EXCEPT ![b] = isEnabled]
  /\ UNCHANGED <<buffer, lockVars, writeCounter, readCounter, firstPacket,
                 wakeVars, pc, call, historyVars>>

WriteStep(t) ==
  \/ BufferWriteLock(t)
  \/ SetBusyWrite(t)
  \/ WriteByte(t)
  \/ ClearBusyWrite(t)
  \/ UnlockAfterWrite(t)
  \/ WakeAll(t)

ReadStep(t) ==
  \/ LoadBusy(t)
  \/ LoadSize(t)
  \/ Wait(t)
  \/ WakeUp(t)
  \/ UpdateReader(t)
  \/ SizeofPacket(t)
  \/ BufferReadLock(t)
  \/ CopyPacket(t)
  \/ UnlockAfterRead(t)
  \/ DeletePacket(t)

Next ==
  \/ \E t \in Threads : WriteStep(t) \/ ReadStep(t)
  \/ \E t \in Threads, b \in Blocks :
       ReadMemory(t, b) \/ \E n \in Sizes : WriteMemory(t, b, n)
  \/ \E b \in Blocks, isEnabled \in BOOLEAN : SetEnabled(b, isEnabled)

Spec == Init /\ [][Next]_vars

\* The operating system runs every thread that can run.  Nothing obliges an
\* idle thread to make a call.
Fairness == \A t \in Threads : WF_vars(WriteStep(t) \/ ReadStep(t))

FairSpec == Spec /\ Fairness

-----------------------------------------------------------------------------
(* What the data path guarantees.                                          *)

\* Thread t is in a call on block b.
In(t, b, pcs) == call[t].block = b /\ pc[t] \in pcs

\* The packets of block b that its reader has been given.
Delivered(b) == received[FirstLinked[b]][b]

SamePacket(p, q) == p.call = q.call /\ p.bytes = q.bytes

\* The k-th packet that the reader of a block copies is the k-th packet
\* posted to it, with all of its bytes: nothing is lost, repeated, reordered
\* or copied half written, although the count of packets that ReadMemory
\* consults is loaded without the lock (GRIRegulator.cpp:88-94).
CopiesArePostings ==
  \A b \in Blocks :
    /\ Len(Delivered(b)) <= Len(posted[b])
    /\ \A i \in 1 .. Len(Delivered(b)) :
         SamePacket(Delivered(b)[i], posted[b][i])

\* DeletePacket() clears by counters that run ahead of the copies
\* (UpdateReader counts before ReadMemory copies, GRIRegulator.cpp:103-118):
\* still every posted packet not yet copied keeps its bytes.
UnreadPacketsKept ==
  \A b \in Blocks :
    \A i \in Len(Delivered(b)) + 1 .. Len(posted[b]) :
      SamePacket(buffer[b].packets[i], posted[b][i])

\* A reader that reaches the copy finds its packet, so it never waits in
\* wait_queue_ (GRIMemoryManager.cpp:262-264) where the packet that would
\* wake it may already have been written.
NeverWaitsOnQueue == \A t \in Threads : pc[t] # "WaitOnQueue"

\* write_counter_ counts a packet before it is written (GRIRegulator.cpp:159)
\* and is never corrected: whenever the writer is not between the two, every
\* counted packet is in the buffer, complete, and the buffer is neither
\* locked nor marked busy.
CountedPacketsAreWritten ==
  \A b \in Blocks :
    ~ In(Writer[b], b, WritePCs) =>
      /\ Len(posted[b]) = writeCounter[b]
      /\ NextPacket(buffer[b]) = writeCounter[b]
      /\ ~ buffer[b].busy
      /\ writeLock[b] = None

\* A call of WriteMemory or ReadMemory returns: no lock of a buffer is held
\* for ever, and the only place where a thread can stay is the wait on
\* buffer_ready_.
CallsReturnOrSleep ==
  \A t \in Threads : pc[t] # "Idle" ~> pc[t] \in {"Idle", "Asleep"}

\* The blocks as streams: what was posted and what the reader was given, less
\* the sizes and lengths that go with them.
Bare(packets) ==
  [i \in 1 .. Len(packets) |->
     [call |-> packets[i].call, bytes |-> packets[i].bytes]]

Stream == INSTANCE PacketStream WITH
  Packets   <- [call  : 1 .. MaxWrites,
                bytes : {StoredBytes(n) : n \in Sizes}],
  sent      <- [b \in Blocks |-> Bare(posted[b])],
  delivered <- [b \in Blocks |-> Bare(Delivered(b))]

\* The interleaved steps of writers and readers implement the abstract
\* stream: each is a posting, a delivery or no step of it.
ImplementsStream == Stream!StreamSpec

-----------------------------------------------------------------------------
(* What the documentation says and the code does not do: see the findings. *)

\* The length that ReadMemory returns is that of the packet it copied: a
\* packet is not counted until fully written (GRIMemoryManager.cpp:299-300).
LengthIsThatOfThePacket ==
  \A t \in Threads, b \in Blocks :
    \A i \in 1 .. Len(received[t][b]) :
      received[t][b][i].length = received[t][b][i].bytes

\* A reader waiting in ReadMemory for a packet that has been posted gets it.
WaitingReaderIsServed ==
  \A b \in Blocks :
    In(FirstLinked[b], b, ReadPCs) /\ Len(Delivered(b)) < Len(posted[b])
      ~> ~ In(FirstLinked[b], b, ReadPCs)

\* A thread that wakeAll() has woken leaves the wait.
WokenThreadProceeds ==
  \A t \in Threads :
    pc[t] = "Asleep" /\ t \notin waiters ~> pc[t] # "Asleep"
=============================================================================
