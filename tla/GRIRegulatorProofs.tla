------------------------- MODULE GRIRegulatorProofs -------------------------
(***************************************************************************)
(* Proofs about the data path and the analysis threads, for any number of  *)
(* threads, blocks, links and writes: of GRIRegulator the type invariant,  *)
(* the safety invariants and the refinement of PacketStream, from the      *)
(* inductive invariant of GRIRegulatorInv; of GRIAnalysisThread that it    *)
(* implements GRIRegulator, and how its threads end.                       *)
(***************************************************************************)
EXTENDS GRIAnalysisThread, GRIRegulatorInv, SequenceTheorems, TLAPS

-----------------------------------------------------------------------------
(* What the methods of GRIBuffer do to the fields of a buffer.             *)

\* The buffer a thread starts from (the constructor of GRIBuffer).
LEMMA EmptyBufferType == EmptyBuffer \in Buffer
  BY DEF EmptyBuffer, Buffer

\* The first byte of a new packet appends the packet to the list.
LEMMA WriteNewPacket ==
  ASSUME NEW buf \in Buffer, NEW c \in Nat \ {0}
  PROVE  LET new == WriteToBuffer(buf, NextPacket(buf), 0, c) IN
         /\ new \in Buffer
         /\ new.busy = buf.busy /\ new.marker = buf.marker
         /\ new.nulls = buf.nulls
         /\ NextPacket(new) = NextPacket(buf) + 1
         /\ \A i \in 1 .. NextPacket(buf) : new.packets[i] = buf.packets[i]
         /\ new.packets[NextPacket(buf) + 1] = [call |-> c, bytes |-> 1]
<1> DEFINE p == [call |-> c, bytes |-> 1]
<1>1. p \in Packet
  BY DEF Packet
<1>2. buf.packets \in Seq(Packet)
  BY DEF Buffer
<1>3. WriteToBuffer(buf, NextPacket(buf), 0, c)
        = [buf EXCEPT !.packets = Append(@, p)]
  BY DEF WriteToBuffer
<1> HIDE DEF p
<1>4. /\ Append(buf.packets, p) \in Seq(Packet)
      /\ Len(Append(buf.packets, p)) = Len(buf.packets) + 1
      /\ \A i \in 1 .. Len(buf.packets) :
           Append(buf.packets, p)[i] = buf.packets[i]
      /\ Append(buf.packets, p)[Len(buf.packets) + 1] = p
  BY <1>1, <1>2, AppendProperties
<1>5. QED
  BY <1>3, <1>4 DEF Buffer, NextPacket, p

\* A further byte lengthens a packet that is in the list.
LEMMA WriteNextByte ==
  ASSUME NEW buf \in Buffer, NEW c \in Nat \ {0},
         NEW p \in 0 .. NextPacket(buf) - 1
  PROVE  LET i   == buf.packets[p + 1].bytes
             new == WriteToBuffer(buf, p, i, c)
         IN
         /\ new \in Buffer
         /\ new.busy = buf.busy /\ new.marker = buf.marker
         /\ new.nulls = buf.nulls
         /\ NextPacket(new) = NextPacket(buf)
         /\ \A j \in 1 .. NextPacket(buf) :
              j # p + 1 => new.packets[j] = buf.packets[j]
         /\ new.packets[p + 1]
              = [call |-> buf.packets[p + 1].call, bytes |-> i + 1]
<1> DEFINE old == buf.packets[p + 1]
           e   == [call |-> old.call, bytes |-> old.bytes + 1]
<1>1. /\ buf.packets \in Seq(Packet)
      /\ p + 1 \in 1 .. Len(buf.packets)
      /\ p # NextPacket(buf)
  BY DEF Buffer, NextPacket
<1>2. old \in Packet
  BY <1>1, ElementOfSeq
<1>3. e \in Packet /\ e = [old EXCEPT !.bytes = old.bytes + 1]
  BY <1>2 DEF Packet
<1>4. WriteToBuffer(buf, p, old.bytes, c)
        = [buf EXCEPT !.packets = [@ EXCEPT ![p + 1] = e]]
  BY <1>1 DEF WriteToBuffer
<1> HIDE DEF old, e
<1>5. /\ [buf.packets EXCEPT ![p + 1] = e] \in Seq(Packet)
      /\ Len([buf.packets EXCEPT ![p + 1] = e]) = Len(buf.packets)
      /\ \A j \in 1 .. Len(buf.packets) :
           [buf.packets EXCEPT ![p + 1] = e][j]
             = IF j = p + 1 THEN e ELSE buf.packets[j]
  BY <1>1, <1>3, ExceptSeq
<1>6. QED
  BY <1>1, <1>3, <1>4, <1>5 DEF Buffer, NextPacket, old, e

\* Buffer new is buffer buf, but for the bytes of packets below a limit.
SameAbove(buf, new, below) ==
  /\ new.busy = buf.busy
  /\ new.marker = buf.marker
  /\ buf.nulls = {} => new.nulls = {}
  /\ NextPacket(new) = NextPacket(buf)
  /\ \A i \in 1 .. NextPacket(buf) :
       /\ new.packets[i].call = buf.packets[i].call
       /\ i > below => new.packets[i] = buf.packets[i]

\* Clearing a range of packets drops their bytes and nothing else.
LEMMA ClearRange ==
  ASSUME NEW buf \in Buffer, NEW from \in Nat, NEW below \in Nat
  PROVE  /\ ClearPackets(buf, from, below) \in Buffer
         /\ SameAbove(buf, ClearPackets(buf, from, below), below)
<1> DEFINE f == [i \in DOMAIN buf.packets |->
                   IF i \in from + 1 .. below
                   THEN [call |-> buf.packets[i].call, bytes |-> 0]
                   ELSE buf.packets[i]]
<1>1. /\ buf.packets \in Seq(Packet)
      /\ DOMAIN buf.packets = 1 .. Len(buf.packets)
      /\ Len(buf.packets) \in Nat
      /\ \A i \in 1 .. Len(buf.packets) : buf.packets[i] \in Packet
  BY ElementOfSeq, LenProperties DEF Buffer
<1>2. \A i \in 1 .. Len(buf.packets) :
        f[i] \in Packet /\ f[i].call = buf.packets[i].call
  BY <1>1 DEF Packet
<1>3. f \in [1 .. Len(buf.packets) -> Packet]
  BY <1>1, <1>2
<1>4. f \in Seq(Packet) /\ Len(f) = Len(buf.packets)
  BY <1>1, <1>3, IsASeq, LenProperties
<1>5. ClearPackets(buf, from, below)
        = [buf EXCEPT !.nulls = @ \ (from .. below - 1), !.packets = f]
  BY DEF ClearPackets
<1>6. \A i \in 1 .. Len(buf.packets) : i > below => f[i] = buf.packets[i]
  BY <1>1
<1> HIDE DEF f
<1>7. QED
  BY <1>2, <1>4, <1>5, <1>6 DEF Buffer, NextPacket, SameAbove

\* Copying the packet at the marker moves the marker to the next packet.
LEMMA CopyAndAdvance ==
  ASSUME NEW buf \in Buffer, NEW t \in Threads
  PROVE  LET p   == CurrentPacket(buf, t)
             new == IncrementPacketMarker(ReadBytes(buf, t, p), t)
         IN
         /\ new \in Buffer
         /\ new.busy = buf.busy /\ new.packets = buf.packets
         /\ new.nulls = buf.nulls
         /\ new.marker = [buf.marker EXCEPT ![t] = p + 1]
<1> DEFINE p == CurrentPacket(buf, t)
           m == [buf.marker EXCEPT ![t] = p]
<1>1. /\ buf.marker \in [Threads -> Nat] /\ p = buf.marker[t] /\ p \in Nat
      /\ buf = [busy    |-> buf.busy, packets |-> buf.packets,
                marker  |-> buf.marker, nulls  |-> buf.nulls]
  BY DEF Buffer, CurrentPacket
<1>2. m = buf.marker
  BY <1>1
<1>3. ReadBytes(buf, t, p) = buf
  <2>1. SetPacketMarker(buf, t, p) = [buf EXCEPT !.marker = m]
    BY DEF SetPacketMarker
  <2>2. [buf EXCEPT !.marker = m] = buf
    BY <1>1, <1>2 DEF Buffer
  <2>3. QED
    BY <2>1, <2>2 DEF ReadBytes
<1>4. IncrementPacketMarker(buf, t)
        = [buf EXCEPT !.marker = [@ EXCEPT ![t] = p + 1]]
  BY <1>1 DEF IncrementPacketMarker
<1>5. [buf.marker EXCEPT ![t] = p + 1] \in [Threads -> Nat]
  BY <1>1
<1>6. QED
  BY <1>3, <1>4, <1>5 DEF Buffer

-----------------------------------------------------------------------------
(* What a step leaves alone.  A step of one thread changes the pc and the  *)
(* call of that thread only; the invariants of a block depend on those of  *)
(* its writer and of its reader.                                           *)

\* The writer of b is as far in a write of b as before, or not in one.
WriterStays(b) ==
  LET w == Writer[b] IN
  \/ pc'[w] = pc[w] /\ call'[w] = call[w]
  \/ ~ In(w, b, WritePCs) /\ ~ In(w, b, WritePCs)'

\* The reader of b is as far in a read of b as before, or not in one.
ReaderStays(b) ==
  LET r == FirstLinked[b] IN
  \/ pc'[r] = pc[r] /\ call'[r] = call[r]
  \/ ~ In(r, b, ReadPCs) /\ ~ In(r, b, ReadPCs)'

\* A step that touches neither the write in progress nor the packet it is
\* storing preserves the progress of the write.
LEMMA WriteFrameButRead ==
  ASSUME NEW b \in Blocks, WriteInv(b), WriterStays(b),
         buffer'[b].nulls = buffer[b].nulls,
         buffer'[b].busy = buffer[b].busy,
         NextPacket(buffer'[b]) = NextPacket(buffer[b]),
         Storing(b) => LastOf(b)' = LastOf(b),
         writeCounter'[b] = writeCounter[b],
         posted'[b] = posted[b]
  PROVE  WriteInv(b)'
<1> DEFINE w == Writer[b]
<1>1. CASE pc'[w] = pc[w] /\ call'[w] = call[w]
  BY <1>1 DEF WriteInv, Storing, In
<1>2. CASE ~ In(w, b, WritePCs) /\ ~ In(w, b, WritePCs)'
  BY <1>2 DEF WriteInv, Storing, In, WritePCs
<1>3. QED
  BY <1>1, <1>2 DEF WriterStays

LEMMA WriteFrame ==
  ASSUME NEW b \in Blocks, WriteInv(b), WriterStays(b),
         buffer'[b].nulls = buffer[b].nulls,
         buffer'[b].busy = buffer[b].busy,
         buffer'[b].packets = buffer[b].packets,
         writeCounter'[b] = writeCounter[b],
         posted'[b] = posted[b]
  PROVE  WriteInv(b)'
  BY WriteFrameButRead DEF LastOf, NextPacket

LEMMA InOrderStays ==
  ASSUME NEW b \in Blocks, InOrder(b), Delivered(b)' = Delivered(b),
         \A i \in 1 .. Len(Delivered(b)) : posted'[b][i] = posted[b][i]
  PROVE  InOrder(b)'
  BY DEF InOrder, SamePacket

\* A step that touches neither the read in progress nor the deliveries
\* preserves what is known of the reader, whatever is posted meanwhile.
LEMMA ReadFrame ==
  ASSUME NEW b \in Blocks, ReadInv(b), ReaderStays(b),
         Len(Delivered(b)) \in Nat,
         buffer'[b].marker = buffer[b].marker,
         NextPacket(buffer[b]) \in Nat, NextPacket(buffer'[b]) \in Nat,
         NextPacket(buffer[b]) <= NextPacket(buffer'[b]),
         Len(posted[b]) \in Nat, Len(posted'[b]) \in Nat,
         Len(posted[b]) <= Len(posted'[b]),
         \A i \in 1 .. Len(posted[b]) : posted'[b][i] = posted[b][i],
         readCounter'[b] = readCounter[b],
         firstPacket'[b] = firstPacket[b],
         received'[FirstLinked[b]][b] = received[FirstLinked[b]][b]
  PROVE  ReadInv(b)'
<1> DEFINE r == FirstLinked[b]
           k == Len(Delivered(b))
<1>1. k' = k /\ Delivered(b)' = Delivered(b)
  BY DEF Delivered
<1>2. /\ buffer'[b].marker[r] = k
      /\ k <= Len(posted'[b])
      /\ InOrder(b)'
      /\ firstPacket'[b] <= k
  <2>1. /\ buffer'[b].marker[r] = k
        /\ k <= Len(posted'[b])
        /\ firstPacket'[b] <= k
        /\ \A i \in 1 .. Len(Delivered(b)) : posted'[b][i] = posted[b][i]
    BY DEF ReadInv
  <2>2. QED
    BY <1>1, <2>1, InOrderStays DEF ReadInv
<1>3. CASE pc'[r] = pc[r] /\ call'[r] = call[r]
  BY <1>1, <1>2, <1>3 DEF ReadInv, In, NextPacket
<1>4. CASE ~ In(r, b, ReadPCs) /\ ~ In(r, b, ReadPCs)'
  BY <1>1, <1>2, <1>4
     DEF ReadInv, In, NextPacket, ReadPCs, CountedReadPCs
<1>5. QED
  BY <1>3, <1>4 DEF ReaderStays

\* What IInv says of one block and of one thread in a call.
LEMMA BlockFacts ==
  ASSUME IInv, NEW b \in Blocks
  PROVE  /\ LockInv(b) /\ WriteInv(b) /\ ContentInv(b) /\ ReadInv(b)
         /\ buffer[b] \in Buffer
         /\ NextPacket(buffer[b]) \in Nat
         /\ posted[b] \in Seq(Posting) /\ Len(posted[b]) \in Nat
         /\ Delivered(b) \in Seq(Delivery) /\ Len(Delivered(b)) \in Nat
         /\ writeCounter[b] \in Nat /\ readCounter[b] \in Nat
         /\ firstPacket[b] \in Nat
         /\ Writer[b] \in Threads /\ FirstLinked[b] \in Threads
<1>1. LockInv(b) /\ WriteInv(b) /\ ContentInv(b) /\ ReadInv(b)
  BY DEF IInv, BlockInv
<1>2. /\ buffer[b] \in Buffer
      /\ posted[b] \in Seq(Posting)
      /\ writeCounter[b] \in Nat /\ readCounter[b] \in Nat
      /\ firstPacket[b] \in Nat
      /\ Writer[b] \in Threads /\ FirstLinked[b] \in Threads
  BY LinksAssumption DEF IInv, TypeOK
<1>3. Delivered(b) \in Seq(Delivery)
  BY <1>2 DEF IInv, TypeOK, Delivered
<1>4. buffer[b].packets \in Seq(Packet)
  BY <1>2 DEF Buffer
<1>5. QED
  BY <1>1, <1>2, <1>3, <1>4, LenProperties DEF NextPacket

\* What is posted is in the buffer and counted.
LEMMA PostedAreStored ==
  ASSUME IInv, NEW b \in Blocks
  PROVE  /\ Len(posted[b]) <= NextPacket(buffer[b])
         /\ Len(posted[b]) <= writeCounter[b]
         /\ Storing(b) => Len(posted[b]) < NextPacket(buffer[b])
<1> DEFINE w == Writer[b]
<1>1. /\ WriteInv(b) /\ Len(posted[b]) \in Nat
      /\ writeCounter[b] \in Nat /\ NextPacket(buffer[b]) \in Nat
  BY BlockFacts
<1>2. CASE In(w, b, {"WriteLock", "SetBusy", "WriteBytes", "ClearBusy"})
  BY <1>1, <1>2 DEF WriteInv, Storing, In
<1>3. CASE ~ In(w, b, {"WriteLock", "SetBusy", "WriteBytes", "ClearBusy"})
  BY <1>1, <1>3 DEF WriteInv, Storing, In
<1>4. QED
  BY <1>2, <1>3

LEMMA CallFacts ==
  ASSUME IInv, NEW t \in Threads, pc[t] # "Idle"
  PROVE  /\ call[t] \in Call
         /\ call[t].block \in Blocks
         /\ pc[t] \in WritePCs => Writer[call[t].block] = t
         /\ pc[t] \in ServedReadPCs => FirstLinked[call[t].block] = t
  BY DEF IInv, TypeOK, RoleInv, Call

LEMMA NoCallType == NoCall \in Call /\ NoCall.block = None
  BY DEF NoCall, NewCall, Call

\* Only thread t moves.
StepOf(t) == \A u \in Threads : u # t => pc'[u] = pc[u] /\ call'[u] = call[u]

LEMMA LockFrame ==
  ASSUME IInv, NEW t \in Threads, StepOf(t), NEW b \in Blocks,
         writeLock'[b] = writeLock[b], readLocks'[b] = readLocks[b],
         In(t, b, LockedWritePCs)' <=> In(t, b, LockedWritePCs),
         In(t, b, LockedReadPCs)' <=> In(t, b, LockedReadPCs)
  PROVE  LockInv(b)'
<1>1. LockInv(b) /\ Writer[b] \in Threads
  BY BlockFacts
<1>2. \A u \in Threads :
        /\ In(u, b, LockedWritePCs)' <=> In(u, b, LockedWritePCs)
        /\ In(u, b, LockedReadPCs)' <=> In(u, b, LockedReadPCs)
  BY DEF StepOf, In
<1>3. QED
  BY <1>1, <1>2 DEF LockInv

LEMMA ContentFrame ==
  ASSUME NEW b \in Blocks, ContentInv(b),
         buffer'[b].packets = buffer[b].packets,
         posted'[b] = posted[b],
         firstPacket'[b] = firstPacket[b]
  PROVE  ContentInv(b)'
  BY DEF ContentInv

\* A step of ReadMemory outside the buffer's lock that copies and clears
\* nothing can only disturb what is known of the reader.
LEMMA UnlockedReadStep ==
  ASSUME IInv, NEW t \in Threads, StepOf(t),
         UNCHANGED <<buffer, lockVars, writeCounter, firstPacket, posted>>,
         pc[t] \in ({"Idle"} \union ReadPCs) \ LockedReadPCs,
         pc'[t] \in ({"Idle"} \union ReadPCs) \ LockedReadPCs,
         TypeOK', RoleInv', \A b \in Blocks : ReadInv(b)'
  PROVE  IInv'
<1>1. ASSUME NEW b \in Blocks
      PROVE  LockInv(b)' /\ WriteInv(b)' /\ ContentInv(b)'
  <2>1. LockInv(b)'
    BY <1>1, LockFrame
       DEF In, ReadPCs, LockedReadPCs, LockedWritePCs, lockVars
  <2>2. WriterStays(b)
    BY <1>1, BlockFacts DEF WriterStays, StepOf, In, ReadPCs, WritePCs
  <2>3. WriteInv(b)'
    BY <1>1, <2>2, BlockFacts, WriteFrame
  <2>4. ContentInv(b)'
    BY <1>1, BlockFacts, ContentFrame
  <2>5. QED
    BY <2>1, <2>3, <2>4
<1>2. QED
  BY <1>1 DEF IInv, BlockInv

\* A step of WriteMemory leaves the reader where it is.
LEMMA WriteStepReader ==
  ASSUME IInv, NEW t \in Threads, StepOf(t),
         pc[t] \in {"Idle"} \union WritePCs,
         pc'[t] \in {"Idle"} \union WritePCs,
         NEW b \in Blocks,
         buffer'[b].marker = buffer[b].marker,
         NextPacket(buffer'[b]) \in Nat,
         NextPacket(buffer[b]) <= NextPacket(buffer'[b]),
         Len(posted'[b]) \in Nat,
         Len(posted[b]) <= Len(posted'[b]),
         \A i \in 1 .. Len(posted[b]) : posted'[b][i] = posted[b][i],
         UNCHANGED <<readCounter, firstPacket, received>>
  PROVE  ReadInv(b)'
<1>1. ReaderStays(b)
  BY BlockFacts DEF ReaderStays, StepOf, In, ReadPCs, WritePCs
<1>2. QED
  BY <1>1, BlockFacts, ReadFrame

-----------------------------------------------------------------------------
(* The steps of ReadMemory.                                                *)

LEMMA ReadMemoryStep ==
  ASSUME IInv, NEW t \in Threads, NEW b \in Blocks, ReadMemory(t, b)
  PROVE  IInv'
<1> USE DEF ReadMemory, Goto, lockVars, blockVars, wakeVars, historyVars
<1>1. /\ call[t] \in Call /\ call'[t] = NewCall(b, CurrentPacket(buffer[b], t), 0)
      /\ pc'[t] = "LoadBusy" /\ pc[t] = "Idle"
      /\ StepOf(t)
      /\ call'[t].block = b /\ call'[t].packet = CurrentPacket(buffer[b], t)
      /\ call[t].block = None
  BY DEF IInv, TypeOK, StepOf, NewCall
<1>2. TypeOK'
  <2>1. CurrentPacket(buffer[b], t) \in Nat
    BY BlockFacts DEF Buffer, CurrentPacket
  <2>2. call'[t] \in Call /\ call'[t].block = b
    BY <1>1, <2>1 DEF Call, NewCall
  <2>3. QED
    BY <1>1, <2>1, <2>2, LinksAssumption DEF IInv, TypeOK, PCs, ReadPCs
<1>3. RoleInv'
  BY <1>1 DEF IInv, TypeOK, RoleInv, StepOf, WritePCs, ServedReadPCs, CountedReadPCs
<1>4. ASSUME NEW c \in Blocks PROVE ReadInv(c)'
  <2>1. CASE FirstLinked[c] = t /\ c = b
    <3>1. ReadInv(b) /\ Delivered(b)' = Delivered(b)
      BY BlockFacts DEF Delivered
    <3>2. call'[t].packet = Len(Delivered(b))
      BY <1>1, <2>1, <3>1 DEF ReadInv, CurrentPacket
    <3>3. QED
      BY <1>1, <2>1, <3>1, <3>2, InOrderStays DEF ReadInv, In, CountedReadPCs
  <2>2. CASE ~ (FirstLinked[c] = t /\ c = b)
    <3>1. ReaderStays(c)
      BY <1>1, <1>4, <2>2, BlockFacts, LinksAssumption DEF ReaderStays, StepOf, In
    <3>2. QED
      BY <1>4, <3>1, BlockFacts, ReadFrame
  <2>3. QED
    BY <2>1, <2>2
<1>5. QED
  BY <1>1, <1>2, <1>3, <1>4, UnlockedReadStep DEF ReadPCs, LockedReadPCs

\* Looking at the size of the buffer and sleeping change nothing that is
\* known of the reader.
LEMMA WaitingStep ==
  ASSUME IInv, NEW t \in Threads, StepOf(t),
         UNCHANGED <<buffer, readCounter, firstPacket, posted, received>>,
         call'[t].block = call[t].block, call'[t].packet = call[t].packet,
         pc[t] \in {"LoadBusy", "LoadSize", "Wait", "Asleep"},
         pc'[t] \in {"LoadBusy", "LoadSize", "Wait", "Asleep"},
         NEW b \in Blocks
  PROVE  ReadInv(b)'
<1>1. ReadInv(b) /\ FirstLinked[b] \in Threads /\ Delivered(b)' = Delivered(b)
  BY BlockFacts DEF Delivered
<1>2. CASE FirstLinked[b] = t
  BY <1>1, <1>2, InOrderStays DEF ReadInv, In, CountedReadPCs
<1>3. CASE FirstLinked[b] # t
  BY <1>1, <1>3, BlockFacts, ReadFrame DEF ReaderStays, StepOf
<1>4. QED
  BY <1>2, <1>3

LEMMA LoadBusyStep ==
  ASSUME IInv, NEW t \in Threads, LoadBusy(t)
  PROVE  IInv'
<1> USE DEF LoadBusy, Goto, lockVars, blockVars, wakeVars, historyVars
<1> DEFINE b == call[t].block
<1>1. /\ call[t] \in Call /\ b \in Blocks
      /\ call'[t] = [call[t] EXCEPT !.busy = buffer[b].busy]
      /\ call'[t].block = b /\ call'[t].packet = call[t].packet
      /\ pc[t] = "LoadBusy" /\ pc'[t] = "LoadSize"
      /\ StepOf(t)
  BY CallFacts DEF IInv, TypeOK, StepOf, Call
<1>2. TypeOK'
  <2>1. buffer[b].busy \in BOOLEAN
    BY <1>1, BlockFacts DEF Buffer
  <2>2. call'[t] \in Call
    BY <1>1, <2>1 DEF Call
  <2>3. QED
    BY <1>1, <2>2, LinksAssumption DEF IInv, TypeOK, PCs, ReadPCs
<1>3. RoleInv'
  BY <1>1 DEF IInv, RoleInv, StepOf, WritePCs, ServedReadPCs, CountedReadPCs
<1>4. \A c \in Blocks : ReadInv(c)'
  BY <1>1, WaitingStep
<1>5. QED
  BY <1>1, <1>2, <1>3, <1>4, UnlockedReadStep DEF ReadPCs, LockedReadPCs

LEMMA LoadSizeStep ==
  ASSUME IInv, NEW t \in Threads, LoadSize(t)
  PROVE  IInv'
<1> USE DEF LoadSize, Goto, lockVars, blockVars, wakeVars, historyVars
<1> DEFINE b == call[t].block
           n == NextPacket(buffer[b])
<1>1. /\ call[t] \in Call /\ b \in Blocks
      /\ call' = call
      /\ pc[t] = "LoadSize" /\ pc'[t] \in {"Wait", "UpdateReader"}
      /\ StepOf(t)
  BY CallFacts DEF IInv, TypeOK, StepOf
<1>2. TypeOK'
  BY <1>1, LinksAssumption DEF IInv, TypeOK, PCs, ReadPCs
<1>3. RoleInv'
  BY <1>1 DEF IInv, RoleInv, StepOf, WritePCs, ServedReadPCs, CountedReadPCs
<1>4. ASSUME NEW c \in Blocks
      PROVE  ReadInv(c)'
  <2>1. CASE pc'[t] = "Wait"
    BY <1>1, <1>4, <2>1, WaitingStep
  <2>2. CASE pc'[t] = "UpdateReader" /\ FirstLinked[c] = t /\ b = c
    <3>1. n \in Nat /\ call[t].packet \in Nat
      BY <1>1, BlockFacts DEF Call
    <3>2. ~ (BufferSizeFrom(call[t].busy, n) - 1 < call[t].packet)
      BY <1>1, <2>2 DEF IInv, TypeOK
    <3>3. call[t].packet < n
      BY <1>1, <3>1, <3>2 DEF BufferSizeFrom, Call
    <3>4. ReadInv(b) /\ Delivered(b)' = Delivered(b)
      BY <1>1, BlockFacts DEF Delivered
    <3>5. QED
      BY <1>1, <2>2, <3>3, <3>4, InOrderStays
         DEF ReadInv, In, CountedReadPCs
  <2>3. CASE ~ (FirstLinked[c] = t /\ b = c)
    <3>1. ReaderStays(c)
      BY <1>1, <1>4, <2>3, BlockFacts DEF ReaderStays, StepOf, In
    <3>2. QED
      BY <1>4, <3>1, BlockFacts, ReadFrame
  <2>4. QED
    BY <1>1, <2>1, <2>2, <2>3
<1>5. QED
  BY <1>1, <1>2, <1>3, <1>4, UnlockedReadStep DEF ReadPCs, LockedReadPCs

LEMMA WaitStep ==
  ASSUME IInv, NEW t \in Threads, Wait(t)
  PROVE  IInv'
<1> USE DEF Wait, Goto, lockVars, blockVars, wakeVars, historyVars
<1>1. /\ call' = call
      /\ pc[t] = "Wait" /\ pc'[t] = "Asleep"
      /\ StepOf(t)
  BY DEF IInv, TypeOK, StepOf
<1>2. TypeOK'
  BY <1>1, LinksAssumption DEF IInv, TypeOK, PCs, ReadPCs
<1>3. RoleInv'
  BY <1>1 DEF IInv, RoleInv, StepOf, WritePCs, ServedReadPCs, CountedReadPCs
<1>4. \A c \in Blocks : ReadInv(c)'
  BY <1>1, WaitingStep
<1>5. QED
  BY <1>1, <1>2, <1>3, <1>4, UnlockedReadStep DEF ReadPCs, LockedReadPCs

LEMMA WakeUpStep ==
  ASSUME IInv, NEW t \in Threads, WakeUp(t)
  PROVE  IInv'
<1> USE DEF WakeUp, Goto, lockVars, blockVars, wakeVars, historyVars
<1>1. /\ call' = call
      /\ pc[t] = "Asleep" /\ pc'[t] = "LoadBusy"
      /\ StepOf(t)
  BY DEF IInv, TypeOK, StepOf
<1>2. TypeOK'
  BY <1>1, LinksAssumption DEF IInv, TypeOK, PCs, ReadPCs
<1>3. RoleInv'
  BY <1>1 DEF IInv, RoleInv, StepOf, WritePCs, ServedReadPCs, CountedReadPCs
<1>4. \A c \in Blocks : ReadInv(c)'
  BY <1>1, WaitingStep
<1>5. QED
  BY <1>1, <1>2, <1>3, <1>4, UnlockedReadStep DEF ReadPCs, LockedReadPCs

LEMMA UpdateReaderStep ==
  ASSUME IInv, NEW t \in Threads, UpdateReader(t)
  PROVE  IInv'
<1> USE DEF lockVars, wakeVars, historyVars
<1> DEFINE b == call[t].block
<1>1. /\ call[t] \in Call /\ b \in Blocks
      /\ pc[t] = "UpdateReader"
      /\ UNCHANGED <<buffer, lockVars, enabled, writeCounter, firstPacket,
                     wakeVars, historyVars>>
  BY CallFacts DEF UpdateReader
<1>2. CASE FirstLinked[b] = t
  <2>0. /\ pc' = [pc EXCEPT ![t] = "SizeofPacket"] /\ call' = call
        /\ readCounter' = [readCounter EXCEPT ![b] = @ + 1]
    BY <1>2 DEF UpdateReader, Goto
  <2>1. /\ pc'[t] = "SizeofPacket" /\ StepOf(t)
        /\ readCounter'[b] = readCounter[b] + 1
        /\ \A c \in Blocks : c # b => readCounter'[c] = readCounter[c]
    BY <1>1, <2>0 DEF IInv, TypeOK, StepOf
  <2>2. TypeOK'
    BY <1>1, <2>0, LinksAssumption, SMTT(60) DEF IInv, TypeOK, PCs, ReadPCs
  <2>3. RoleInv'
    BY <1>1, <1>2, <2>0, <2>1
       DEF IInv, RoleInv, StepOf, WritePCs, ServedReadPCs, CountedReadPCs
  <2>4. ASSUME NEW c \in Blocks
        PROVE  ReadInv(c)'
    <3>1. CASE c = b
      <4>1. ReadInv(b) /\ Delivered(b)' = Delivered(b)
        BY <1>1, <2>0, BlockFacts DEF Delivered
      <4>2. QED
        BY <1>1, <1>2, <2>0, <2>1, <3>1, <4>1, InOrderStays
           DEF ReadInv, In, CountedReadPCs
    <3>2. CASE c # b
      <4>1. ReaderStays(c)
        BY <1>1, <2>0, <2>1, <2>4, <3>2, BlockFacts
           DEF ReaderStays, StepOf, In
      <4>2. QED
        BY <1>1, <2>1, <2>4, <3>2, <4>1, BlockFacts, ReadFrame
    <3>3. QED
      BY <3>1, <3>2
  <2>5. QED
    BY <1>1, <2>0, <2>1, <2>2, <2>3, <2>4, UnlockedReadStep
       DEF ReadPCs, LockedReadPCs
<1>3. CASE FirstLinked[b] # t
  <2>0. /\ pc' = [pc EXCEPT ![t] = "Idle"]
        /\ call' = [call EXCEPT ![t] = NoCall]
        /\ readCounter' = readCounter
    BY <1>3 DEF UpdateReader, Return, Goto
  <2>1. /\ pc'[t] = "Idle" /\ call'[t] = NoCall /\ StepOf(t)
        /\ NoCall \in Call /\ NoCall.block = None
    BY <1>1, <2>0, NoCallType DEF IInv, TypeOK, StepOf
  <2>2. TypeOK'
    BY <1>1, <2>0, <2>1, LinksAssumption DEF IInv, TypeOK, PCs
  <2>3. RoleInv'
    BY <1>1, <2>1
       DEF IInv, RoleInv, StepOf, WritePCs, ServedReadPCs, CountedReadPCs
  <2>4. ASSUME NEW c \in Blocks
        PROVE  ReadInv(c)'
    <3>1. ReaderStays(c)
      BY <1>1, <1>3, <2>1, <2>4, BlockFacts, LinksAssumption
         DEF ReaderStays, StepOf, In
    <3>2. QED
      BY <1>1, <2>0, <2>4, <3>1, BlockFacts, ReadFrame
  <2>5. QED
    BY <1>1, <2>0, <2>1, <2>2, <2>3, <2>4, UnlockedReadStep
       DEF ReadPCs, LockedReadPCs
<1>4. QED
  BY <1>2, <1>3

LEMMA SizeofPacketStep ==
  ASSUME IInv, NEW t \in Threads, SizeofPacket(t)
  PROVE  IInv'
<1> USE DEF SizeofPacket, Goto, lockVars, blockVars, wakeVars, historyVars
<1> DEFINE b == call[t].block
           p == CurrentPacket(buffer[b], t)
<1>1. /\ call[t] \in Call /\ b \in Blocks /\ FirstLinked[b] = t
      /\ call'[t] = [call[t] EXCEPT !.length = PacketSize(buffer[b], p)]
      /\ call'[t].block = b
      /\ pc[t] = "SizeofPacket" /\ pc'[t] = "ReadLock"
      /\ StepOf(t)
  BY CallFacts
     DEF IInv, TypeOK, StepOf, Call, ServedReadPCs, CountedReadPCs
<1>2. ReadInv(b) /\ Delivered(b)' = Delivered(b)
  BY <1>1, BlockFacts DEF Delivered
<1>3. PacketSize(buffer[b], p) \in Nat
  <2>1. p \in Nat /\ p < NextPacket(buffer[b])
    BY <1>1, <1>2, BlockFacts
       DEF ReadInv, In, CurrentPacket, CountedReadPCs
  <2>2. buffer[b].packets \in Seq(Packet) /\ buffer[b].nulls = {}
    BY <1>1, BlockFacts DEF Buffer, WriteInv
  <2>3. buffer[b].packets[p + 1] \in Packet
    BY <1>1, <2>1, <2>2, BlockFacts, ElementOfSeq DEF NextPacket
  <2>4. QED
    BY <2>2, <2>3 DEF PacketSize, IsNullPacket, Packet
<1>4. TypeOK'
  <2>1. call'[t] \in Call
    BY <1>1, <1>3 DEF Call
  <2>2. QED
    BY <1>1, <2>1, LinksAssumption DEF IInv, TypeOK, PCs, ReadPCs
<1>5. RoleInv'
  BY <1>1 DEF IInv, RoleInv, StepOf, WritePCs, ServedReadPCs, CountedReadPCs
<1>6. ASSUME NEW c \in Blocks
      PROVE  ReadInv(c)'
  <2>1. CASE c = b
    BY <1>1, <1>2, <2>1, InOrderStays DEF ReadInv, In, CountedReadPCs
  <2>2. CASE c # b
    <3>1. ReaderStays(c)
      BY <1>1, <1>6, <2>2, BlockFacts DEF ReaderStays, StepOf, In
    <3>2. QED
      BY <1>6, <3>1, BlockFacts, ReadFrame
  <2>3. QED
    BY <2>1, <2>2
<1>7. QED
  BY <1>1, <1>4, <1>5, <1>6, UnlockedReadStep DEF ReadPCs, LockedReadPCs

LEMMA BufferReadLockStep ==
  ASSUME IInv, NEW t \in Threads, BufferReadLock(t)
  PROVE  IInv'
<1> USE DEF lockVars, blockVars, wakeVars, historyVars
<1> DEFINE b == call[t].block
<1>1. /\ call[t] \in Call /\ b \in Blocks /\ FirstLinked[b] = t
      /\ call' = call
      /\ writeLock[b] = None
      /\ pc' = [pc EXCEPT ![t] = "CopyPacket"]
      /\ readLocks' = [readLocks EXCEPT ![b] = @ \union {t}]
      /\ pc[t] = "ReadLock"
      /\ UNCHANGED <<buffer, writeLock, blockVars, wakeVars, historyVars>>
  BY CallFacts DEF BufferReadLock, Goto, ServedReadPCs, CountedReadPCs
<1>2. /\ pc'[t] = "CopyPacket" /\ StepOf(t)
      /\ readLocks'[b] = readLocks[b] \union {t}
      /\ \A c \in Blocks : c # b => readLocks'[c] = readLocks[c]
  BY <1>1 DEF IInv, TypeOK, StepOf
<1>3. TypeOK'
  BY <1>1, LinksAssumption DEF IInv, TypeOK, PCs, ReadPCs
<1>4. RoleInv'
  BY <1>1, <1>2
     DEF IInv, RoleInv, StepOf, WritePCs, ServedReadPCs, CountedReadPCs
<1>5. ASSUME NEW c \in Blocks
      PROVE  LockInv(c)'
  <2>1. CASE c = b
    <3>1. LockInv(b) /\ Writer[b] \in Threads
      BY <1>1, BlockFacts
    <3>2. ~ In(Writer[b], b, LockedWritePCs)'
      BY <1>1, <1>2, <3>1, LinksAssumption
         DEF LockInv, In, StepOf, LockedWritePCs
    <3>3. \A u \in Threads :
            u \in readLocks'[b] <=> In(u, b, LockedReadPCs)'
      BY <1>1, <1>2, <3>1 DEF LockInv, In, StepOf, LockedReadPCs
    <3>4. QED
      BY <1>1, <2>1, <3>1, <3>2, <3>3, LinksAssumption DEF LockInv
  <2>2. CASE c # b
    BY <1>1, <1>2, <1>5, <2>2, LockFrame DEF In
  <2>3. QED
    BY <2>1, <2>2
<1>6. ASSUME NEW c \in Blocks
      PROVE  WriteInv(c)' /\ ContentInv(c)'
  <2>1. WriterStays(c)
    BY <1>1, <1>2, <1>6, BlockFacts DEF WriterStays, StepOf, In, WritePCs
  <2>2. QED
    BY <1>1, <1>6, <2>1, BlockFacts, WriteFrame, ContentFrame
<1>7. ASSUME NEW c \in Blocks
      PROVE  ReadInv(c)'
  <2>1. CASE c = b
    <3>1. ReadInv(b) /\ Delivered(b)' = Delivered(b)
      BY <1>1, BlockFacts DEF Delivered
    <3>2. QED
      BY <1>1, <1>2, <2>1, <3>1, InOrderStays
         DEF ReadInv, In, CountedReadPCs
  <2>2. CASE c # b
    <3>1. ReaderStays(c)
      BY <1>1, <1>2, <1>7, <2>2, BlockFacts DEF ReaderStays, StepOf, In
    <3>2. QED
      BY <1>1, <1>7, <3>1, BlockFacts, ReadFrame
  <2>3. QED
    BY <2>1, <2>2
<1>8. QED
  BY <1>3, <1>4, <1>5, <1>6, <1>7 DEF IInv, BlockInv

\* Under the read lock no write is in progress, so what is in the buffer is
\* what was posted, and the packet at the marker is there.
LEMMA CopyFacts ==
  ASSUME IInv, NEW t \in Threads, pc[t] = "CopyPacket"
  PROVE  LET b == call[t].block
             p == CurrentPacket(buffer[b], t)
         IN
         /\ b \in Blocks /\ FirstLinked[b] = t
         /\ p = Len(Delivered(b)) /\ p < Len(posted[b])
         /\ p < BufferSize(buffer[b])
         /\ NextPacket(buffer[b]) = Len(posted[b])
<1> DEFINE b == call[t].block
           w == Writer[b]
<1>1. b \in Blocks /\ FirstLinked[b] = t /\ In(t, b, LockedReadPCs)
  BY CallFacts
     DEF ServedReadPCs, CountedReadPCs, In, LockedReadPCs
<1>2. /\ LockInv(b) /\ WriteInv(b) /\ ReadInv(b)
      /\ NextPacket(buffer[b]) \in Nat /\ writeCounter[b] \in Nat
      /\ Writer[b] \in Threads
      /\ Len(posted[b]) \in Nat /\ buffer[b].busy \in BOOLEAN
  BY <1>1, BlockFacts DEF Buffer
<1>3. writeLock[b] = None
  BY <1>1, <1>2 DEF LockInv
<1>4. ~ In(w, b, LockedWritePCs)
  BY <1>2, <1>3, LinksAssumption DEF LockInv
<1>5. Len(Delivered(b)) < NextPacket(buffer[b])
  BY <1>1, <1>2 DEF ReadInv, In, CountedReadPCs
<1>6. NextPacket(buffer[b]) = Len(posted[b]) /\ ~ buffer[b].busy
  <2>1. CASE In(w, b, {"WriteLock"})
    <3>1. /\ In(w, b, {"WriteLock", "SetBusy", "WriteBytes", "ClearBusy"})
          /\ In(w, b, {"WriteLock", "SetBusy"})
          /\ ~ In(w, b, {"WriteBytes", "ClearBusy"})
      BY <2>1 DEF In
    <3>2. Len(posted[b]) + 1 = writeCounter[b] /\ ~ buffer[b].busy
      BY <1>2, <3>1 DEF WriteInv
    <3>3. NextPacket(buffer[b]) = writeCounter[b] - 1
      BY <1>2, <3>1 DEF WriteInv
    <3>. QED
      BY <1>2, <3>2, <3>3
  <2>2. CASE ~ In(w, b, {"WriteLock"})
    <3>1. /\ ~ In(w, b, {"WriteLock", "SetBusy", "WriteBytes", "ClearBusy"})
          /\ ~ In(w, b, {"WriteLock", "SetBusy"})
          /\ ~ In(w, b, {"WriteBytes"}) /\ ~ In(w, b, {"WriteBytes", "ClearBusy"})
      BY <1>4, <2>2 DEF In, LockedWritePCs
    <3>2. Len(posted[b]) = writeCounter[b] /\ ~ buffer[b].busy
      BY <1>2, <3>1 DEF WriteInv
    <3>3. NextPacket(buffer[b]) = writeCounter[b]
      BY <1>2, <3>1 DEF WriteInv
    <3>. QED
      BY <3>2, <3>3
  <2>3. QED
    BY <2>1, <2>2
<1>7. QED
  BY <1>1, <1>2, <1>5, <1>6
     DEF ReadInv, CurrentPacket, BufferSize, BufferSizeFrom

\* The packet a reader copies is the one posted after those it was given.
LEMMA CopiedPacket ==
  ASSUME IInv, NEW t \in Threads, pc[t] = "CopyPacket"
  PROVE  LET b == call[t].block
             k == Len(Delivered(b))
             d == [call   |-> buffer[b].packets[k + 1].call,
                   bytes  |-> PacketSize(buffer[b], k),
                   length |-> call[t].length]
         IN d \in Delivery /\ SamePacket(d, posted[b][k + 1])
<1> DEFINE b == call[t].block
           p == Len(Delivered(b))
           d == [call   |-> buffer[b].packets[p + 1].call,
                 bytes  |-> PacketSize(buffer[b], p),
                 length |-> call[t].length]
<1>1. /\ b \in Blocks /\ p < Len(posted[b])
      /\ NextPacket(buffer[b]) = Len(posted[b])
  BY CopyFacts
<1>2. /\ buffer[b].packets \in Seq(Packet) /\ buffer[b].nulls = {}
      /\ p \in Nat /\ Len(posted[b]) \in Nat
      /\ ContentInv(b) /\ firstPacket[b] \in Nat /\ firstPacket[b] <= p
  BY <1>1, BlockFacts DEF Buffer, WriteInv, ReadInv
<1>3. buffer[b].packets[p + 1] \in Packet
  BY <1>1, <1>2, ElementOfSeq DEF NextPacket
<1>4. d.bytes = buffer[b].packets[p + 1].bytes
  BY <1>2 DEF PacketSize, IsNullPacket
<1>5. call[t].length \in Nat
  BY CallFacts DEF Call
<1>6. d.call \in Nat \ {0} /\ d.bytes \in Nat /\ d.length \in Nat
  BY <1>3, <1>4, <1>5 DEF Packet
<1>7. p + 1 \in 1 .. Len(posted[b]) /\ p + 1 > firstPacket[b]
  BY <1>1, <1>2
<1>8. /\ buffer[b].packets[p + 1].call = posted[b][p + 1].call
      /\ buffer[b].packets[p + 1].bytes = posted[b][p + 1].bytes
  BY <1>2, <1>7 DEF ContentInv
<1>9. QED
  BY <1>4, <1>6, <1>8 DEF Delivery, SamePacket

LEMMA CopyPacketStep ==
  ASSUME IInv, NEW t \in Threads, CopyPacket(t)
  PROVE  IInv'
<1> USE DEF lockVars, blockVars, wakeVars
<1> DEFINE b == call[t].block
           p == CurrentPacket(buffer[b], t)
           d == [call   |-> buffer[b].packets[p + 1].call,
                 bytes  |-> PacketSize(buffer[b], p),
                 length |-> call[t].length]
<1>1. /\ pc[t] = "CopyPacket"
      /\ b \in Blocks /\ FirstLinked[b] = t
      /\ p = Len(Delivered(b)) /\ p < Len(posted[b])
      /\ p < BufferSize(buffer[b])
      /\ NextPacket(buffer[b]) = Len(posted[b])
  BY CopyFacts DEF CopyPacket
<1>2. /\ pc' = [pc EXCEPT ![t] = "ReadUnlock"]
      /\ UNCHANGED <<lockVars, blockVars, wakeVars, call, posted>>
  BY <1>1 DEF CopyPacket, Goto
<1>copy. /\ buffer' = [buffer EXCEPT ![b] =
                         IncrementPacketMarker(ReadBytes(@, t, p), t)]
         /\ received' = [received EXCEPT ![t][b] = Append(@, d)]
  BY <1>1 DEF CopyPacket
<1> DEFINE new == IncrementPacketMarker(ReadBytes(buffer[b], t, p), t)
<1>3. /\ new \in Buffer
      /\ new.busy = buffer[b].busy /\ new.packets = buffer[b].packets
      /\ new.nulls = buffer[b].nulls
      /\ new.marker = [buffer[b].marker EXCEPT ![t] = p + 1]
  BY <1>1, BlockFacts, CopyAndAdvance
<1>4. /\ d \in Delivery
      /\ SamePacket(d, posted[b][p + 1])
  BY <1>1, CopiedPacket
<1> HIDE DEF d, new
<1>5. /\ pc'[t] = "ReadUnlock" /\ StepOf(t)
      /\ buffer'[b] = new
      /\ \A c \in Blocks : c # b => buffer'[c] = buffer[c]
      /\ Delivered(b)' = Append(Delivered(b), d)
      /\ received'[t][b] = Append(Delivered(b), d)
      /\ \A c \in Blocks : c # b => Delivered(c)' = Delivered(c)
  <2>1. received \in [Threads -> [Blocks -> Seq(Delivery)]]
    BY DEF IInv, TypeOK
  <2>2. /\ received'[t] = [received[t] EXCEPT ![b] = Append(@, d)]
        /\ \A u \in Threads : u # t => received'[u] = received[u]
    BY <1>copy, <2>1
  <2>3. \A c \in Blocks : FirstLinked[c] \in Threads
    BY BlockFacts
  <2>4. /\ received'[t][b] = Append(received[t][b], d)
        /\ \A c \in Blocks : c # b => received'[t][c] = received[t][c]
    BY <1>1, <2>1, <2>2
  <2>5. QED
    BY <1>1, <1>2, <1>copy, <2>2, <2>3, <2>4
       DEF IInv, TypeOK, StepOf, new, Delivered
<1>6. /\ Append(Delivered(b), d) \in Seq(Delivery)
      /\ Len(Append(Delivered(b), d)) = p + 1
      /\ \A i \in 1 .. p : Append(Delivered(b), d)[i] = Delivered(b)[i]
      /\ Append(Delivered(b), d)[p + 1] = d
  BY <1>1, <1>4, BlockFacts, AppendProperties
<1>7. TypeOK'
  <2>1. buffer' \in [Blocks -> Buffer]
    BY <1>copy, <1>3 DEF IInv, TypeOK, new
  <2>2. received' \in [Threads -> [Blocks -> Seq(Delivery)]]
    <3>1. [received[t] EXCEPT ![b] = Append(@, d)] \in [Blocks -> Seq(Delivery)]
      BY <1>1, <1>6 DEF IInv, TypeOK, Delivered
    <3>2. QED
      BY <1>copy, <3>1 DEF IInv, TypeOK
  <2>3. QED
    BY <1>1, <1>2, <2>1, <2>2, LinksAssumption
       DEF IInv, TypeOK, PCs, ReadPCs
<1>8. RoleInv'
  BY <1>1, <1>2, <1>5
     DEF IInv, RoleInv, StepOf, WritePCs, ServedReadPCs, CountedReadPCs
<1>9. ASSUME NEW c \in Blocks
      PROVE  /\ buffer'[c].busy = buffer[c].busy
             /\ buffer'[c].packets = buffer[c].packets
             /\ buffer'[c].nulls = buffer[c].nulls
  BY <1>3, <1>5, <1>9
<1>10. ASSUME NEW c \in Blocks
       PROVE  LockInv(c)' /\ WriteInv(c)' /\ ContentInv(c)'
  <2>1. LockInv(c)'
    BY <1>1, <1>2, <1>5, <1>10, LockFrame
       DEF In, LockedReadPCs, LockedWritePCs
  <2>2. WriterStays(c)
    BY <1>1, <1>2, <1>5, <1>10, BlockFacts
       DEF WriterStays, StepOf, In, WritePCs
  <2>3. QED
    BY <1>2, <1>9, <1>10, <2>1, <2>2, BlockFacts, WriteFrame, ContentFrame
<1>11. ASSUME NEW c \in Blocks
       PROVE  ReadInv(c)'
  <2>1. CASE c = b
    <3>1. /\ ReadInv(b) /\ buffer[b].marker \in [Threads -> Nat]
          /\ p \in Nat /\ Len(posted[b]) \in Nat
      BY <1>1, BlockFacts DEF Buffer
    <3>2. buffer'[b].marker[t] = p + 1
      BY <1>3, <1>5, <3>1
    <3>3. \A i \in 1 .. p + 1 : SamePacket(Append(Delivered(b), d)[i], posted[b][i])
      <4>1. \A i \in 1 .. p : SamePacket(Delivered(b)[i], posted[b][i])
        BY <1>1, <3>1 DEF ReadInv, InOrder
      <4>2. SamePacket(Append(Delivered(b), d)[p + 1], posted[b][p + 1])
        BY <1>4, <1>6
      <4>3. \A i \in 1 .. p + 1 : i = p + 1 \/ i \in 1 .. p
        BY <3>1
      <4>4. QED
        BY <1>6, <4>1, <4>2, <4>3
    <3>4. /\ readCounter[b] = p + 1 /\ firstPacket[b] <= p
          /\ firstPacket[b] \in Nat
      BY <1>1, <3>1, BlockFacts DEF ReadInv, In, CountedReadPCs
    <3>5. Delivered(c)' = Append(Delivered(b), d) /\ FirstLinked[c] = t
      BY <1>1, <1>5, <2>1 DEF Delivered
    <3>6. ~ In(t, c, {"UpdateReader"} \union CountedReadPCs)'
      BY <1>5 DEF In, CountedReadPCs
    <3>7. ~ In(t, c, CountedReadPCs)' /\ ~ In(t, c, {"LoadBusy", "LoadSize", "Wait", "Asleep", "UpdateReader"})'
      BY <1>5 DEF In, CountedReadPCs
    <3>8. /\ buffer'[c].marker[t] = p + 1
          /\ posted'[c] = posted[b] /\ p + 1 <= Len(posted[b])
          /\ firstPacket'[c] <= p + 1
          /\ readCounter'[c] = p + 1
      BY <1>1, <1>2, <2>1, <3>1, <3>2, <3>4
    <3>9. QED
      <4>1. InOrder(c)'
        BY <1>6, <3>3, <3>5, <3>8 DEF InOrder
      <4>2. QED
        BY <1>6, <3>5, <3>6, <3>7, <3>8, <4>1 DEF ReadInv
  <2>2. CASE c # b
    <3>1. ReaderStays(c)
      BY <1>1, <1>2, <1>5, <1>11, <2>2, BlockFacts
         DEF ReaderStays, StepOf, In
    <3>2. /\ buffer'[c] = buffer[c]
          /\ received'[FirstLinked[c]][c] = received[FirstLinked[c]][c]
      BY <1>5, <1>11, <2>2 DEF Delivered
    <3>3. QED
      BY <1>2, <1>11, <3>1, <3>2, BlockFacts, ReadFrame
  <2>3. QED
    BY <2>1, <2>2
<1>12. QED
  BY <1>7, <1>8, <1>10, <1>11 DEF IInv, BlockInv

LEMMA UnlockAfterReadStep ==
  ASSUME IInv, NEW t \in Threads, UnlockAfterRead(t)
  PROVE  IInv'
<1> USE DEF lockVars, blockVars, wakeVars, historyVars
<1> DEFINE b == call[t].block
<1>1. /\ b \in Blocks /\ FirstLinked[b] = t
      /\ pc' = [pc EXCEPT ![t] = "DeletePacket"]
      /\ readLocks' = [readLocks EXCEPT ![b] = @ \ {t}]
      /\ pc[t] = "ReadUnlock"
      /\ UNCHANGED <<buffer, writeLock, blockVars, wakeVars, call,
                     historyVars>>
  BY CallFacts DEF UnlockAfterRead, Goto, ServedReadPCs
<1>2. /\ pc'[t] = "DeletePacket" /\ StepOf(t)
      /\ readLocks'[b] = readLocks[b] \ {t}
      /\ \A c \in Blocks : c # b => readLocks'[c] = readLocks[c]
  BY <1>1 DEF IInv, TypeOK, StepOf
<1>3. TypeOK'
  BY <1>1, LinksAssumption DEF IInv, TypeOK, PCs, ReadPCs
<1>4. RoleInv'
  BY <1>1, <1>2
     DEF IInv, RoleInv, StepOf, WritePCs, ServedReadPCs, CountedReadPCs
<1>5. ASSUME NEW c \in Blocks
      PROVE  LockInv(c)'
  <2>1. CASE c = b
    <3>1. LockInv(b) /\ Writer[b] \in Threads
      BY <1>1, BlockFacts
    <3>2. In(Writer[b], b, LockedWritePCs)' <=> In(Writer[b], b, LockedWritePCs)
      BY <1>1, <1>2, <3>1 DEF In, StepOf, LockedWritePCs
    <3>3. \A u \in Threads :
            u \in readLocks'[b] <=> In(u, b, LockedReadPCs)'
      BY <1>1, <1>2, <3>1 DEF LockInv, In, StepOf, LockedReadPCs
    <3>4. QED
      BY <1>1, <1>2, <2>1, <3>1, <3>2, <3>3 DEF LockInv
  <2>2. CASE c # b
    BY <1>1, <1>2, <1>5, <2>2, LockFrame DEF In
  <2>3. QED
    BY <2>1, <2>2
<1>6. ASSUME NEW c \in Blocks
      PROVE  WriteInv(c)' /\ ContentInv(c)'
  <2>1. WriterStays(c)
    BY <1>1, <1>2, <1>6, BlockFacts DEF WriterStays, StepOf, In, WritePCs
  <2>2. QED
    BY <1>1, <1>6, <2>1, BlockFacts, WriteFrame, ContentFrame
<1>7. ASSUME NEW c \in Blocks
      PROVE  ReadInv(c)'
  <2>1. CASE c = b
    <3>1. ReadInv(b) /\ Delivered(b)' = Delivered(b)
      BY <1>1, BlockFacts DEF Delivered
    <3>2. QED
      BY <1>1, <1>2, <2>1, <3>1, InOrderStays
         DEF ReadInv, In, CountedReadPCs
  <2>2. CASE c # b
    <3>1. ReaderStays(c)
      BY <1>1, <1>2, <1>7, <2>2, BlockFacts DEF ReaderStays, StepOf, In
    <3>2. QED
      BY <1>1, <1>7, <3>1, BlockFacts, ReadFrame
  <2>3. QED
    BY <2>1, <2>2
<1>8. QED
  BY <1>3, <1>4, <1>5, <1>6, <1>7 DEF IInv, BlockInv

LEMMA DeletePacketStep ==
  ASSUME IInv, NEW t \in Threads, DeletePacket(t)
  PROVE  IInv'
<1> USE DEF lockVars, wakeVars, historyVars
<1> DEFINE b == call[t].block
           k == Len(Delivered(b))
<1>1. /\ b \in Blocks /\ FirstLinked[b] = t
      /\ pc[t] = "DeletePacket"
      /\ pc' = [pc EXCEPT ![t] = "Idle"]
      /\ call' = [call EXCEPT ![t] = NoCall]
      /\ UNCHANGED <<lockVars, enabled, writeCounter, readCounter, wakeVars,
                     historyVars>>
  BY CallFacts DEF DeletePacket, Return, Goto, ServedReadPCs
<1>2. /\ pc'[t] = "Idle" /\ call'[t] = NoCall /\ StepOf(t)
      /\ NoCall \in Call /\ NoCall.block = None
      /\ \A c \in Blocks : ~ In(t, c, PCs)'
  BY <1>1, NoCallType, LinksAssumption DEF IInv, TypeOK, StepOf, In
<1>3. /\ readCounter[b] = k /\ k <= Len(posted[b])
      /\ Len(posted[b]) <= writeCounter[b]
      /\ firstPacket[b] <= k
      /\ k \in Nat /\ writeCounter[b] \in Nat /\ firstPacket[b] \in Nat
      /\ Len(posted[b]) \in Nat
  <2>1. readCounter[b] = k /\ k <= Len(posted[b]) /\ firstPacket[b] <= k
    BY <1>1, BlockFacts DEF ReadInv, In, CountedReadPCs
  <2>2. QED
    BY <1>1, <2>1, BlockFacts, PostedAreStored
<1>4. CASE k = firstPacket[b]
  <2>1. buffer' = buffer /\ firstPacket' = firstPacket
    BY <1>1, <1>3, <1>4 DEF DeletePacket
  <2>2. TypeOK'
    BY <1>1, <1>2, <2>1, LinksAssumption DEF IInv, TypeOK, PCs
  <2>3. RoleInv'
    BY <1>1, <1>2
       DEF IInv, RoleInv, StepOf, WritePCs, ServedReadPCs, CountedReadPCs
  <2>4. ASSUME NEW c \in Blocks
        PROVE  ReadInv(c)'
    <3>1. CASE c = b
      <4>1. ReadInv(c) /\ Delivered(c)' = Delivered(c)
        BY <1>1, <2>4, BlockFacts DEF Delivered
      <4>2. QED
        BY <1>1, <1>2, <2>1, <3>1, <4>1, InOrderStays
           DEF ReadInv, In, CountedReadPCs, PCs, ReadPCs
    <3>2. CASE c # b
      <4>1. ReaderStays(c)
        BY <1>1, <1>2, <2>4, <3>2, BlockFacts, LinksAssumption
           DEF ReaderStays, StepOf, In
      <4>2. QED
        BY <1>1, <2>1, <2>4, <4>1, BlockFacts, ReadFrame
    <3>3. QED
      BY <3>1, <3>2
  <2>5. QED
    BY <1>1, <1>2, <2>1, <2>2, <2>3, <2>4, UnlockedReadStep
       DEF ReadPCs, LockedReadPCs
<1>5. CASE k # firstPacket[b]
  <2> DEFINE new == ClearPackets(buffer[b], firstPacket[b], k)
  <2>1. /\ buffer' = [buffer EXCEPT ![b] = new]
        /\ firstPacket' = [firstPacket EXCEPT ![b] = k]
    BY <1>1, <1>3, <1>5 DEF DeletePacket
  <2>2. /\ new \in Buffer
        /\ new.busy = buffer[b].busy /\ new.marker = buffer[b].marker
        /\ new.nulls = {}
        /\ NextPacket(new) = NextPacket(buffer[b])
        /\ \A i \in 1 .. NextPacket(buffer[b]) :
             /\ new.packets[i].call = buffer[b].packets[i].call
             /\ i > k => new.packets[i] = buffer[b].packets[i]
    <3>1. buffer[b] \in Buffer /\ buffer[b].nulls = {}
      BY <1>1, BlockFacts DEF WriteInv, Storing
    <3>2. firstPacket[b] \in Nat /\ k \in Nat
      BY <1>3
    <3>3. new \in Buffer /\ SameAbove(buffer[b], new, k)
      BY <3>1, <3>2, ClearRange
    <3> HIDE DEF new
    <3>4. QED
      BY <3>1, <3>3 DEF SameAbove
  <2> HIDE DEF new
  <2>3. /\ buffer'[b] = new /\ firstPacket'[b] = k
        /\ \A c \in Blocks :
             c # b => buffer'[c] = buffer[c] /\ firstPacket'[c] = firstPacket[c]
    BY <1>1, <2>1 DEF IInv, TypeOK
  <2>4. TypeOK'
    BY <1>1, <1>2, <1>3, <2>1, <2>2, LinksAssumption DEF IInv, TypeOK, PCs
  <2>5. RoleInv'
    BY <1>1, <1>2
       DEF IInv, RoleInv, StepOf, WritePCs, ServedReadPCs, CountedReadPCs
  <2>6. ASSUME NEW c \in Blocks
        PROVE  LockInv(c)'
    BY <1>1, <1>2, <2>6, LockFrame, LinksAssumption
       DEF In, LockedReadPCs, LockedWritePCs
  <2>7. ASSUME NEW c \in Blocks
        PROVE  WriteInv(c)'
    <3>1. WriterStays(c)
      BY <1>1, <1>2, <2>7, BlockFacts
         DEF WriterStays, StepOf, In, WritePCs
    <3>2. CASE c # b
      BY <1>1, <2>3, <2>7, <3>1, <3>2, BlockFacts, WriteFrame
    <3>3. CASE c = b
      <4>1. /\ WriteInv(b) /\ NextPacket(buffer[b]) \in Nat
            /\ buffer[b].nulls = {} /\ buffer'[c] = new
        BY <1>1, <2>3, <3>3, BlockFacts DEF WriteInv, Storing
      <4>2. Storing(b) => new.packets[NextPacket(new)] = LastOf(b)
        BY <1>1, <1>3, <2>2, <4>1, PostedAreStored DEF LastOf
      <4>3. QED
        BY <1>1, <2>2, <3>1, <3>3, <4>1, <4>2, WriteFrameButRead DEF LastOf
    <3>4. QED
      BY <3>2, <3>3
  <2>8. ASSUME NEW c \in Blocks
        PROVE  ContentInv(c)'
    <3>1. CASE c # b
      BY <1>1, <2>3, <2>8, <3>1, BlockFacts, ContentFrame
    <3>2. CASE c = b
      <4>1. /\ ContentInv(c) /\ Len(posted[c]) <= NextPacket(buffer[c])
            /\ NextPacket(buffer[c]) \in Nat /\ posted' = posted
            /\ buffer'[c] = new /\ firstPacket'[c] = k
        BY <1>1, <2>3, <2>8, <3>2, BlockFacts, PostedAreStored
      <4>2. \A i \in 1 .. NextPacket(buffer[c]) :
              /\ new.packets[i].call = buffer[c].packets[i].call
              /\ i > k => new.packets[i] = buffer[c].packets[i]
        BY <2>2, <3>2
      <4>3. firstPacket[c] <= k /\ firstPacket[c] \in Nat /\ k \in Nat
            /\ Len(posted[c]) \in Nat
        BY <1>3, <3>2
      <4> HIDE DEF b, k
      <4>4. QED
        BY <4>1, <4>2, <4>3 DEF ContentInv
    <3>3. QED
      BY <3>1, <3>2
  <2>9. ASSUME NEW c \in Blocks
        PROVE  ReadInv(c)'
    <3>1. CASE c = b
      <4>1. ReadInv(c) /\ Delivered(c)' = Delivered(c)
        BY <1>1, <2>9, BlockFacts DEF Delivered
      <4>2. QED
        <5>1. /\ ~ In(t, c, CountedReadPCs)'
              /\ ~ In(t, c, {"UpdateReader"} \union CountedReadPCs)'
              /\ ~ In(t, c, {"LoadBusy", "LoadSize", "Wait", "Asleep",
                             "UpdateReader"})'
          BY <1>2 DEF In, CountedReadPCs
        <5>2. buffer'[c].marker = buffer[c].marker /\ firstPacket'[c] = k
          BY <2>2, <2>3, <2>9, <3>1
        <5>3. /\ FirstLinked[c] = t /\ k = Len(Delivered(c)) /\ k \in Nat
              /\ readCounter'[c] = k /\ posted' = posted
          BY <1>1, <1>3, <3>1
        <5> HIDE DEF b, k
        <5>4. QED
          BY <4>1, <5>1, <5>2, <5>3 DEF ReadInv, InOrder, SamePacket
    <3>2. CASE c # b
      <4>1. ReaderStays(c)
        BY <1>1, <1>2, <2>9, <3>2, BlockFacts, LinksAssumption
           DEF ReaderStays, StepOf, In
      <4>2. QED
        BY <1>1, <2>3, <2>9, <3>2, <4>1, BlockFacts, ReadFrame
    <3>3. QED
      BY <3>1, <3>2
  <2>10. QED
    BY <2>4, <2>5, <2>6, <2>7, <2>8, <2>9 DEF IInv, BlockInv
<1>6. QED
  BY <1>4, <1>5
-----------------------------------------------------------------------------
(* The steps of WriteMemory.                                               *)

\* A write to block b leaves every other block as it is.
LEMMA OtherBlock ==
  ASSUME IInv, NEW t \in Threads, StepOf(t),
         pc[t] \in {"Idle"} \union WritePCs,
         pc'[t] \in {"Idle"} \union WritePCs,
         NEW b \in Blocks,
         call[t].block \in {b, None}, call'[t].block \in {b, None},
         NEW c \in Blocks, c # b,
         buffer'[c] = buffer[c], writeLock'[c] = writeLock[c],
         readLocks'[c] = readLocks[c], writeCounter'[c] = writeCounter[c],
         posted'[c] = posted[c],
         UNCHANGED <<readCounter, firstPacket, received>>
  PROVE  LockInv(c)' /\ WriteInv(c)' /\ ContentInv(c)' /\ ReadInv(c)'
<1>1. ~ In(t, c, PCs) /\ ~ In(t, c, PCs)'
  BY LinksAssumption DEF In
<1>2. LockInv(c)'
  BY <1>1, LockFrame
     DEF In, PCs, ReadPCs, WritePCs, LockedReadPCs, LockedWritePCs
<1>3. WriterStays(c)
  BY <1>1, BlockFacts DEF WriterStays, StepOf, In, PCs
<1>4. WriteInv(c)' /\ ContentInv(c)'
  BY <1>3, BlockFacts, WriteFrame, ContentFrame
<1>5. ReadInv(c)'
  <2>1. /\ NextPacket(buffer[c]) \in Nat /\ Len(posted[c]) \in Nat
        /\ NextPacket(buffer'[c]) = NextPacket(buffer[c])
        /\ Len(posted'[c]) = Len(posted[c])
    BY BlockFacts
  <2>2. QED
    BY <2>1, WriteStepReader
<1>6. QED
  BY <1>2, <1>4, <1>5

LEMMA WriteMemoryStep ==
  ASSUME IInv, NEW t \in Threads, NEW b \in Blocks, NEW n \in Sizes,
         WriteMemory(t, b, n)
  PROVE  IInv'
<1> USE DEF lockVars, blockVars, wakeVars, historyVars
<1> DEFINE p == NextPacket(buffer[b])
<1>1. /\ Writer[b] = t
      /\ pc[t] = "Idle" /\ pc' = [pc EXCEPT ![t] = "WriteLock"]
      /\ writeCounter' = [writeCounter EXCEPT ![b] = @ + 1]
      /\ call' = [call EXCEPT ![t] = NewCall(b, p, n)]
      /\ UNCHANGED <<buffer, lockVars, enabled, readCounter, firstPacket,
                     wakeVars, historyVars>>
  BY DEF WriteMemory, Goto
<1>2. /\ pc'[t] = "WriteLock" /\ call'[t] = NewCall(b, p, n) /\ StepOf(t)
      /\ writeCounter'[b] = writeCounter[b] + 1
      /\ \A c \in Blocks : c # b => writeCounter'[c] = writeCounter[c]
      /\ call[t].block = None
  BY <1>1 DEF IInv, TypeOK, StepOf
<1>3. /\ call'[t].block = b /\ call'[t].packet = p
      /\ call'[t].index = 0 /\ call'[t].size = n
  BY <1>2 DEF NewCall
<1>4. p \in Nat /\ n \in Nat /\ writeCounter[b] \in Nat
  BY BlockFacts, BoundsAssumption
<1>5. TypeOK'
  <2>1. call'[t] \in Call
    BY <1>2, <1>4 DEF Call, NewCall
  <2>2. call' \in [Threads -> Call] /\ writeCounter' \in [Blocks -> Nat]
    BY <1>1, <1>2, <1>4, <2>1 DEF IInv, TypeOK
  <2>3. \A u \in Threads : call'[u].block = None <=> pc'[u] = "Idle"
    <3>1. ASSUME NEW u \in Threads, u # t
          PROVE  call'[u].block = None <=> pc'[u] = "Idle"
      BY <1>2, <3>1 DEF IInv, TypeOK, StepOf
    <3>2. call'[t].block # None /\ pc'[t] # "Idle"
      BY <1>2, <1>3, LinksAssumption
    <3>3. QED
      BY <3>1, <3>2
  <2>4. pc' \in [Threads -> PCs]
    BY <1>1 DEF IInv, TypeOK, PCs, WritePCs
  <2>5. QED
    BY <1>1, <2>2, <2>3, <2>4 DEF IInv, TypeOK
<1>6. RoleInv'
  BY <1>1, <1>2, <1>3
     DEF IInv, RoleInv, StepOf, WritePCs, ServedReadPCs, CountedReadPCs
<1>7. LockInv(b)'
  BY <1>1, <1>2, <1>3, LockFrame DEF In, LockedReadPCs, LockedWritePCs
<1>8. WriteInv(b)'
  <2>1. ~ In(t, b, WritePCs)
    BY <1>1 DEF In, WritePCs
  <2>2. /\ WriteInv(b) /\ Len(posted[b]) \in Nat
        /\ Len(posted[b]) = writeCounter[b] /\ p = writeCounter[b]
        /\ ~ buffer[b].busy /\ buffer[b].nulls = {}
    BY <1>1, <2>1, BlockFacts DEF WriteInv, Storing, In, WritePCs
  <2>3. In(t, b, {"WriteLock"})'
    BY <1>2, <1>3 DEF In
  <2>4. QED
    BY <1>1, <1>2, <1>3, <1>4, <2>2, <2>3 DEF WriteInv, Storing, In
<1>9. ContentInv(b)'
  BY <1>1, BlockFacts, ContentFrame
<1>10. ReadInv(b)'
  BY <1>1, <1>2, BlockFacts, WriteStepReader DEF WritePCs
<1>11. ASSUME NEW c \in Blocks, c # b
       PROVE  LockInv(c)' /\ WriteInv(c)' /\ ContentInv(c)' /\ ReadInv(c)'
  BY <1>1, <1>2, <1>3, <1>11, OtherBlock DEF WritePCs
<1>12. QED
  BY <1>5, <1>6, <1>7, <1>8, <1>9, <1>10, <1>11 DEF IInv, BlockInv

LEMMA BufferWriteLockStep ==
  ASSUME IInv, NEW t \in Threads, BufferWriteLock(t)
  PROVE  IInv'
<1> USE DEF lockVars, blockVars, wakeVars, historyVars
<1>0. PICK b \in Blocks : b = call[t].block
  BY CallFacts DEF BufferWriteLock, Goto
<1>1. /\ Writer[b] = t /\ call[t].block = b
      /\ pc[t] = "WriteLock" /\ pc' = [pc EXCEPT ![t] = "SetBusy"]
      /\ writeLock[b] = None /\ readLocks[b] = {}
      /\ writeLock' = [writeLock EXCEPT ![b] = t]
      /\ UNCHANGED <<buffer, readLocks, blockVars, wakeVars, call,
                     historyVars>>
  BY <1>0, CallFacts DEF BufferWriteLock, Goto, WritePCs
<1>2. /\ pc'[t] = "SetBusy" /\ StepOf(t)
      /\ writeLock'[b] = t
      /\ \A c \in Blocks : c # b => writeLock'[c] = writeLock[c]
  BY <1>1 DEF IInv, TypeOK, StepOf
<1>3. TypeOK'
  BY <1>1, LinksAssumption DEF IInv, TypeOK, PCs, WritePCs
<1>4. RoleInv'
  BY <1>1, <1>2
     DEF IInv, RoleInv, StepOf, WritePCs, ServedReadPCs, CountedReadPCs
<1>5. LockInv(b)'
  <2>1. In(t, b, LockedWritePCs)'
    BY <1>1, <1>2 DEF In, LockedWritePCs
  <2>2. \A u \in Threads : In(u, b, LockedReadPCs)' <=> In(u, b, LockedReadPCs)
    BY <1>1, <1>2 DEF In, StepOf, LockedReadPCs
  <2>3. QED
    BY <1>1, <1>2, <2>1, <2>2, BlockFacts DEF LockInv
<1>6. WriteInv(b)'
  <2>1. WriteInv(b)
    BY <1>1, BlockFacts
  <2>2. QED
    BY <1>1, <1>2, <2>1 DEF WriteInv, Storing, In, WritePCs
<1>7. ContentInv(b)'
  BY <1>1, BlockFacts, ContentFrame
<1>8. ReadInv(b)'
  BY <1>1, <1>2, BlockFacts, WriteStepReader DEF WritePCs
<1>9. ASSUME NEW c \in Blocks, c # b
      PROVE  LockInv(c)' /\ WriteInv(c)' /\ ContentInv(c)' /\ ReadInv(c)'
  BY <1>1, <1>2, <1>9, OtherBlock DEF WritePCs
<1>10. QED
  BY <1>3, <1>4, <1>5, <1>6, <1>7, <1>8, <1>9 DEF IInv, BlockInv

LEMMA SetBusyWriteStep ==
  ASSUME IInv, NEW t \in Threads, SetBusyWrite(t)
  PROVE  IInv'
<1> USE DEF lockVars, blockVars, wakeVars, historyVars
<1>0. PICK b \in Blocks : b = call[t].block
  BY CallFacts DEF SetBusyWrite, Goto
<1>1. /\ Writer[b] = t /\ call[t].block = b
      /\ pc[t] = "SetBusy" /\ pc' = [pc EXCEPT ![t] = "WriteBytes"]
      /\ UNCHANGED <<lockVars, blockVars, wakeVars, call, historyVars>>
  BY <1>0, CallFacts DEF SetBusyWrite, Goto, WritePCs
<1>2. pc'[t] = "WriteBytes" /\ StepOf(t)
  BY <1>1 DEF IInv, TypeOK, StepOf
<1>3. buffer[b] \in Buffer /\ buffer[b].nulls = {}
  BY <1>1, BlockFacts DEF WriteInv, Storing
<1>4. buffer' = [buffer EXCEPT ![b] = [buffer[b] EXCEPT !.busy = TRUE]]
  <2>1. [buffer[b] EXCEPT !.busy = TRUE].nulls = {}
    BY <1>3 DEF Buffer
  <2>2. AddNullPacket([buffer[b] EXCEPT !.busy = TRUE], call[t].packet)
          = [buffer[b] EXCEPT !.busy = TRUE]
    BY <2>1 DEF AddNullPacket
  <2>3. QED
    BY <1>1, <2>2 DEF SetBusyWrite, IInv, TypeOK
<1>5. /\ buffer'[b] \in Buffer /\ buffer'[b].busy = TRUE
      /\ buffer'[b].packets = buffer[b].packets
      /\ buffer'[b].marker = buffer[b].marker
      /\ buffer'[b].nulls = {}
      /\ \A c \in Blocks : c # b => buffer'[c] = buffer[c]
      /\ buffer' \in [Blocks -> Buffer]
  <2>1. /\ [buffer[b] EXCEPT !.busy = TRUE] \in Buffer
        /\ [buffer[b] EXCEPT !.busy = TRUE].busy = TRUE
        /\ [buffer[b] EXCEPT !.busy = TRUE].packets = buffer[b].packets
        /\ [buffer[b] EXCEPT !.busy = TRUE].marker = buffer[b].marker
        /\ [buffer[b] EXCEPT !.busy = TRUE].nulls = buffer[b].nulls
    BY <1>3 DEF Buffer
  <2>2. QED
    BY <1>1, <1>3, <1>4, <2>1 DEF IInv, TypeOK
<1>6. TypeOK'
  BY <1>1, <1>5, LinksAssumption DEF IInv, TypeOK, PCs, WritePCs
<1>7. RoleInv'
  BY <1>1, <1>2
     DEF IInv, RoleInv, StepOf, WritePCs, ServedReadPCs, CountedReadPCs
<1>8. LockInv(b)'
  BY <1>1, <1>2, LockFrame DEF In, LockedReadPCs, LockedWritePCs
<1>9. WriteInv(b)'
  <2>1. WriteInv(b) /\ NextPacket(buffer'[b]) = NextPacket(buffer[b])
    BY <1>1, <1>5, BlockFacts DEF NextPacket
  <2>2. QED
    BY <1>1, <1>2, <1>5, <2>1 DEF WriteInv, Storing, In, WritePCs
<1>10. ContentInv(b)'
  BY <1>1, <1>5, BlockFacts, ContentFrame
<1>11. ReadInv(b)'
  <2>1. /\ NextPacket(buffer[b]) \in Nat /\ Len(posted[b]) \in Nat
        /\ NextPacket(buffer'[b]) = NextPacket(buffer[b])
    BY <1>1, <1>5, BlockFacts DEF NextPacket
  <2>2. QED
    BY <1>1, <1>2, <1>5, <2>1, WriteStepReader DEF WritePCs
<1>12. ASSUME NEW c \in Blocks, c # b
       PROVE  LockInv(c)' /\ WriteInv(c)' /\ ContentInv(c)' /\ ReadInv(c)'
  BY <1>1, <1>2, <1>5, <1>12, OtherBlock DEF WritePCs
<1>13. QED
  BY <1>6, <1>7, <1>8, <1>9, <1>10, <1>11, <1>12 DEF IInv, BlockInv

\* A byte is never refused, and the packet being stored grows by one byte.
LEMMA WriteByteFacts ==
  ASSUME IInv, NEW t \in Threads, WriteByte(t), NEW b \in Blocks,
         call[t].block = b
  PROVE  LET new == WriteToBuffer(buffer[b], call[t].packet, call[t].index,
                                  writeCounter[b])
         IN
         /\ CanWriteByte(buffer[b], call[t].packet, call[t].index)
         /\ new \in Buffer
         /\ new.busy = buffer[b].busy /\ new.marker = buffer[b].marker
         /\ new.nulls = buffer[b].nulls
         /\ NextPacket(new) = writeCounter[b]
         /\ NextPacket(buffer[b]) <= writeCounter[b]
         /\ \A j \in 1 .. writeCounter[b] - 1 :
              new.packets[j] = buffer[b].packets[j]
         /\ new.packets[writeCounter[b]]
              = [call |-> writeCounter[b], bytes |-> call[t].index + 1]
<1> DEFINE p == call[t].packet
           i == call[t].index
           c == writeCounter[b]
<1>1. /\ pc[t] = "WriteBytes" /\ Writer[b] = t
      /\ In(t, b, {"WriteBytes"}) /\ In(t, b, WritePCs)
  BY CallFacts DEF WriteByte, In, WritePCs
<1>2. /\ WriteInv(b) /\ buffer[b] \in Buffer
      /\ NextPacket(buffer[b]) \in Nat /\ c \in Nat
      /\ p \in Nat /\ i \in Nat
  BY <1>1, BlockFacts, CallFacts DEF Call
<1>3. p + 1 = c /\ c \in Nat \ {0}
  BY <1>1, <1>2 DEF WriteInv, Storing
<1>4. CASE i = 0
  <2>1. p = NextPacket(buffer[b])
    BY <1>1, <1>2, <1>3, <1>4 DEF WriteInv, Storing, In
  <2>2. CanWriteByte(buffer[b], p, i)
    BY <1>2, <1>4, <2>1 DEF CanWriteByte
  <2>3. QED
    BY <1>2, <1>3, <1>4, <2>1, <2>2, WriteNewPacket
<1>5. CASE i # 0
  <2>1. NextPacket(buffer[b]) = c /\ LastOf(b) = [call |-> c, bytes |-> i]
    <3>1. pc[t] = "WriteBytes" /\ ~ In(t, b, {"WriteLock", "SetBusy"})
      BY <1>1 DEF In
    <3>2. NextPacket(buffer[b]) = c
      BY <1>1, <1>2, <1>5, <3>1 DEF WriteInv, Storing
    <3>3. LastOf(b) = [call |-> c, bytes |-> call[Writer[b]].index]
      BY <1>1, <1>2, <1>5, <3>1 DEF WriteInv, Storing
    <3>4. QED
      BY <1>1, <3>2, <3>3
  <2>2. /\ buffer[b].packets[p + 1].call = c
        /\ buffer[b].packets[p + 1].bytes = i
    BY <1>3, <2>1 DEF LastOf
  <2>3. CanWriteByte(buffer[b], p, i)
    BY <1>2, <1>3, <2>1, <2>2 DEF CanWriteByte
  <2>4. p \in 0 .. NextPacket(buffer[b]) - 1
    BY <1>2, <1>3, <2>1
  <2>5. LET new == WriteToBuffer(buffer[b], p, i, c) IN
        /\ new \in Buffer
        /\ new.busy = buffer[b].busy /\ new.marker = buffer[b].marker
        /\ new.nulls = buffer[b].nulls
        /\ NextPacket(new) = NextPacket(buffer[b])
        /\ \A j \in 1 .. NextPacket(buffer[b]) :
             j # p + 1 => new.packets[j] = buffer[b].packets[j]
        /\ new.packets[p + 1] = [call |-> c, bytes |-> i + 1]
    <3>1. LET m == buffer[b].packets[p + 1].bytes
              new == WriteToBuffer(buffer[b], p, m, c)
          IN
          /\ new \in Buffer
          /\ new.busy = buffer[b].busy /\ new.marker = buffer[b].marker
          /\ new.nulls = buffer[b].nulls
          /\ NextPacket(new) = NextPacket(buffer[b])
          /\ \A j \in 1 .. NextPacket(buffer[b]) :
               j # p + 1 => new.packets[j] = buffer[b].packets[j]
          /\ new.packets[p + 1]
               = [call |-> buffer[b].packets[p + 1].call, bytes |-> m + 1]
      BY <1>2, <1>3, <2>4, WriteNextByte, ZenonT(40)
    <3>2. QED
      BY <2>2, <3>1, ZenonT(40)
  <2>6. QED
    BY <1>2, <1>3, <2>1, <2>3, <2>5
<1>6. QED
  BY <1>4, <1>5

LEMMA WriteByteStep ==
  ASSUME IInv, NEW t \in Threads, WriteByte(t)
  PROVE  IInv'
<1> USE DEF lockVars, blockVars, wakeVars, historyVars
<1>0. PICK b \in Blocks : b = call[t].block
  BY CallFacts DEF WriteByte
<1> DEFINE new == WriteToBuffer(buffer[b], call[t].packet, call[t].index,
                                writeCounter[b])
<1>1. /\ new \in Buffer
      /\ new.busy = buffer[b].busy /\ new.marker = buffer[b].marker
      /\ new.nulls = buffer[b].nulls
      /\ NextPacket(new) = writeCounter[b]
      /\ NextPacket(buffer[b]) <= writeCounter[b]
      /\ \A j \in 1 .. writeCounter[b] - 1 :
           new.packets[j] = buffer[b].packets[j]
      /\ new.packets[writeCounter[b]]
           = [call |-> writeCounter[b], bytes |-> call[t].index + 1]
  BY <1>0, WriteByteFacts
<1>2. /\ Writer[b] = t /\ pc[t] = "WriteBytes" /\ call[t].block = b
      /\ buffer' = [buffer EXCEPT ![b] = new]
      /\ call' = [call EXCEPT ![t] = [call[t] EXCEPT !.index = @ + 1]]
      /\ IF call[t].index + 1 < call[t].size
         THEN pc' = pc ELSE pc' = [pc EXCEPT ![t] = "ClearBusy"]
      /\ UNCHANGED <<lockVars, blockVars, wakeVars, historyVars>>
  <2>1. CanWriteByte(buffer[b], call[t].packet, call[t].index)
    BY <1>0, WriteByteFacts
  <2>2. Writer[b] = t /\ pc[t] = "WriteBytes"
    BY <1>0, CallFacts DEF WriteByte, WritePCs
  <2>3. QED
    BY <1>0, <2>1, <2>2 DEF WriteByte, Goto
<1> HIDE DEF new
<1>3. /\ call[t] \in Call /\ call'[t] \in Call
      /\ call'[t].block = b /\ call'[t].packet = call[t].packet
      /\ call'[t].size = call[t].size
      /\ call'[t].index = call[t].index + 1
  <2>1. call[t] \in Call /\ call'[t] = [call[t] EXCEPT !.index = @ + 1]
    BY <1>2 DEF IInv, TypeOK
  <2>2. QED
    BY <1>2, <2>1 DEF Call
<1>4. /\ pc'[t] = IF call[t].index + 1 < call[t].size
                  THEN "WriteBytes" ELSE "ClearBusy"
      /\ StepOf(t)
      /\ buffer'[b] = new
      /\ \A c \in Blocks : c # b => buffer'[c] = buffer[c]
  BY <1>2 DEF IInv, TypeOK, StepOf
<1>5. TypeOK'
  <2>1. \A u \in Threads : call'[u].block = None <=> pc'[u] = "Idle"
    <3>1. ASSUME NEW u \in Threads, u # t
          PROVE  call'[u].block = None <=> pc'[u] = "Idle"
      BY <1>4, <3>1 DEF IInv, TypeOK, StepOf
    <3>2. call'[t].block # None /\ pc'[t] # "Idle"
      BY <1>3, <1>4, LinksAssumption
    <3>3. QED
      BY <3>1, <3>2
  <2>2. pc' \in [Threads -> PCs]
    <3>1. pc \in [Threads -> PCs] /\ "ClearBusy" \in PCs
      BY DEF IInv, TypeOK, PCs, WritePCs
    <3>2. pc' = pc \/ pc' = [pc EXCEPT ![t] = "ClearBusy"]
      BY <1>2
    <3>3. QED
      BY <3>1, <3>2
  <2>3. call' \in [Threads -> Call] /\ buffer' \in [Blocks -> Buffer]
    BY <1>1, <1>2, <1>3 DEF IInv, TypeOK
  <2>4. QED
    BY <1>2, <2>1, <2>2, <2>3 DEF IInv, TypeOK
<1>6. RoleInv'
  BY <1>2, <1>3, <1>4
     DEF IInv, RoleInv, StepOf, WritePCs, ServedReadPCs, CountedReadPCs
<1>7. /\ WriteInv(b) /\ writeCounter[b] \in Nat /\ Len(posted[b]) \in Nat
      /\ NextPacket(buffer[b]) \in Nat
      /\ call[t].index \in Nat /\ call[t].size \in Nat
      /\ Len(posted[b]) + 1 = writeCounter[b]
      /\ call[t].packet + 1 = writeCounter[b]
      /\ buffer[b].busy /\ buffer[b].nulls = {}
  <2>1. /\ WriteInv(b) /\ writeCounter[b] \in Nat /\ Len(posted[b]) \in Nat
        /\ NextPacket(buffer[b]) \in Nat
    BY BlockFacts
  <2>2. In(t, b, {"WriteBytes"})
    BY <1>2 DEF In
  <2>3. QED
    BY <1>2, <1>3, <2>1, <2>2 DEF WriteInv, Storing, In, WritePCs, Call
<1>8. LockInv(b)'
  BY <1>2, <1>3, <1>4, LockFrame DEF In, LockedReadPCs, LockedWritePCs
<1>9. WriteInv(b)'
  <2>1. /\ NextPacket(buffer'[b]) = writeCounter[b]
        /\ LastOf(b)' = [call |-> writeCounter[b],
                         bytes |-> call[t].index + 1]
        /\ buffer'[b].busy /\ buffer'[b].nulls = {}
        /\ Len(posted'[b]) + 1 = writeCounter'[b]
        /\ writeCounter'[b] = writeCounter[b]
        /\ call'[t].packet + 1 = writeCounter'[b]
    BY <1>1, <1>2, <1>3, <1>4, <1>7 DEF LastOf
  <2>2. CASE call[t].index + 1 < call[t].size
    BY <1>2, <1>3, <1>4, <1>7, <2>1, <2>2 DEF WriteInv, Storing, In, WritePCs
  <2>3. CASE ~ (call[t].index + 1 < call[t].size)
    <3>1. call'[t].index = StoredBytes(call'[t].size)
      BY <1>2, <1>3, <1>7, <2>3 DEF WriteInv, Storing, In, StoredBytes
    <3>2. QED
      BY <1>2, <1>3, <1>4, <1>7, <2>1, <2>3, <3>1 DEF WriteInv, Storing, In, WritePCs
  <2>4. QED
    BY <2>2, <2>3
<1>10. ContentInv(b)'
  <2>1. /\ ContentInv(b)
        /\ \A j \in 1 .. Len(posted[b]) :
             buffer'[b].packets[j] = buffer[b].packets[j]
    BY <1>1, <1>4, <1>7, BlockFacts
  <2>2. QED
    BY <1>2, <2>1 DEF ContentInv
<1>11. ReadInv(b)'
  <2>1. /\ buffer'[b].marker = buffer[b].marker
        /\ NextPacket(buffer'[b]) \in Nat
        /\ NextPacket(buffer[b]) <= NextPacket(buffer'[b])
    BY <1>1, <1>4, <1>7
  <2>2. QED
    BY <1>2, <1>4, <1>7, <2>1, WriteStepReader DEF WritePCs
<1>12. ASSUME NEW c \in Blocks, c # b
       PROVE  LockInv(c)' /\ WriteInv(c)' /\ ContentInv(c)' /\ ReadInv(c)'
  BY <1>2, <1>3, <1>4, <1>12, OtherBlock DEF WritePCs
<1>13. QED
  BY <1>5, <1>6, <1>8, <1>9, <1>10, <1>11, <1>12 DEF IInv, BlockInv

LEMMA ClearBusyWriteStep ==
  ASSUME IInv, NEW t \in Threads, ClearBusyWrite(t)
  PROVE  IInv'
<1> USE DEF lockVars, blockVars, wakeVars, historyVars
<1>0. PICK b \in Blocks : b = call[t].block
  BY CallFacts DEF ClearBusyWrite, Goto
<1> DEFINE e == [call  |-> writeCounter[b],
                 bytes |-> StoredBytes(call[t].size),
                 size  |-> call[t].size]
<1>1. /\ Writer[b] = t /\ call[t].block = b
      /\ pc[t] = "ClearBusy" /\ pc' = [pc EXCEPT ![t] = "WriteUnlock"]
      /\ buffer' = [buffer EXCEPT ![b] = [buffer[b] EXCEPT !.busy = FALSE]]
      /\ posted' = [posted EXCEPT ![b] = Append(posted[b], e)]
      /\ UNCHANGED <<lockVars, blockVars, wakeVars, call, received>>
  BY <1>0, CallFacts DEF ClearBusyWrite, Goto, WritePCs
<1>2. /\ pc'[t] = "WriteUnlock" /\ StepOf(t)
  BY <1>1 DEF IInv, TypeOK, StepOf
<1>3. /\ WriteInv(b) /\ writeCounter[b] \in Nat /\ Len(posted[b]) \in Nat
      /\ NextPacket(buffer[b]) \in Nat /\ posted[b] \in Seq(Posting)
      /\ call[t].index \in Nat /\ call[t].size \in Nat
      /\ buffer[b] \in Buffer
      /\ In(t, b, {"ClearBusy"}) /\ In(t, b, WritePCs)
  BY <1>1, BlockFacts, CallFacts DEF Call, In, WritePCs
<1>4. /\ Len(posted[b]) + 1 = writeCounter[b]
      /\ NextPacket(buffer[b]) = writeCounter[b]
      /\ call[t].packet + 1 = writeCounter[b]
      /\ LastOf(b) = [call  |-> writeCounter[b],
                      bytes |-> StoredBytes(call[t].size)]
      /\ buffer[b].nulls = {}
  BY <1>1, <1>3 DEF WriteInv, Storing, In
<1>5. e \in Posting
  BY <1>3, <1>4 DEF Posting, StoredBytes
<1>6. /\ buffer'[b] \in Buffer /\ buffer'[b].busy = FALSE
      /\ buffer'[b].packets = buffer[b].packets
      /\ buffer'[b].marker = buffer[b].marker
      /\ buffer'[b].nulls = {}
      /\ \A c \in Blocks : c # b => buffer'[c] = buffer[c]
      /\ buffer' \in [Blocks -> Buffer]
  <2>1. /\ [buffer[b] EXCEPT !.busy = FALSE] \in Buffer
        /\ [buffer[b] EXCEPT !.busy = FALSE].busy = FALSE
        /\ [buffer[b] EXCEPT !.busy = FALSE].packets = buffer[b].packets
        /\ [buffer[b] EXCEPT !.busy = FALSE].marker = buffer[b].marker
        /\ [buffer[b] EXCEPT !.busy = FALSE].nulls = buffer[b].nulls
    BY <1>3 DEF Buffer
  <2>2. QED
    BY <1>1, <1>4, <2>1 DEF IInv, TypeOK
<1> HIDE DEF e
<1>7. /\ posted'[b] = Append(posted[b], e)
      /\ posted' \in [Blocks -> Seq(Posting)]
      /\ \A c \in Blocks : c # b => posted'[c] = posted[c]
      /\ Len(posted'[b]) = Len(posted[b]) + 1
      /\ \A i \in 1 .. Len(posted[b]) : posted'[b][i] = posted[b][i]
      /\ posted'[b][Len(posted[b]) + 1] = e
  <2>1. /\ posted'[b] = Append(posted[b], e)
        /\ \A c \in Blocks : c # b => posted'[c] = posted[c]
    BY <1>1 DEF IInv, TypeOK
  <2>2. /\ Append(posted[b], e) \in Seq(Posting)
        /\ Len(Append(posted[b], e)) = Len(posted[b]) + 1
        /\ \A i \in 1 .. Len(posted[b]) :
             Append(posted[b], e)[i] = posted[b][i]
        /\ Append(posted[b], e)[Len(posted[b]) + 1] = e
    BY <1>3, <1>5, AppendProperties
  <2>3. posted' \in [Blocks -> Seq(Posting)]
    BY <1>1, <2>2 DEF IInv, TypeOK
  <2>4. QED
    BY <2>1, <2>2, <2>3
<1>8. TypeOK'
  <2>1. pc' \in [Threads -> PCs]
    BY <1>1 DEF IInv, TypeOK, PCs, WritePCs
  <2>2. \A u \in Threads : call'[u].block = None <=> pc'[u] = "Idle"
    BY <1>1, <1>2, LinksAssumption DEF IInv, TypeOK, StepOf
  <2>3. QED
    BY <1>1, <1>6, <1>7, <2>1, <2>2 DEF IInv, TypeOK
<1>9. RoleInv'
  BY <1>1, <1>2
     DEF IInv, RoleInv, StepOf, WritePCs, ServedReadPCs, CountedReadPCs
<1>10. LockInv(b)'
  BY <1>1, <1>2, LockFrame DEF In, LockedReadPCs, LockedWritePCs
<1>11. WriteInv(b)'
  <2>1. NextPacket(buffer'[b]) = NextPacket(buffer[b])
    BY <1>6 DEF NextPacket
  <2>2. QED
    BY <1>1, <1>2, <1>3, <1>4, <1>6, <1>7, <2>1 DEF WriteInv, Storing, In, WritePCs
<1>12. ContentInv(b)'
  <2>1. /\ ContentInv(b)
        /\ buffer'[b].packets[Len(posted[b]) + 1]
             = [call |-> e.call, bytes |-> e.bytes]
    BY <1>3, <1>4, <1>6, BlockFacts DEF LastOf, NextPacket, e
  <2>2. QED
    BY <1>1, <1>3, <1>6, <1>7, <2>1 DEF ContentInv
<1>13. ReadInv(b)'
  <2>1. /\ NextPacket(buffer'[b]) = NextPacket(buffer[b])
        /\ buffer'[b].marker = buffer[b].marker
    BY <1>6 DEF NextPacket
  <2>2. Len(posted'[b]) \in Nat /\ Len(posted[b]) <= Len(posted'[b])
    BY <1>3, <1>7
  <2>3. /\ pc[t] \in {"Idle"} \union WritePCs
        /\ pc'[t] \in {"Idle"} \union WritePCs
        /\ UNCHANGED <<readCounter, firstPacket, received>>
    BY <1>1, <1>2 DEF WritePCs
  <2>4. /\ StepOf(t)
        /\ NextPacket(buffer'[b]) \in Nat
        /\ NextPacket(buffer[b]) <= NextPacket(buffer'[b])
    BY <1>2, <1>3, <2>1
  <2>5. \A i \in 1 .. Len(posted[b]) : posted'[b][i] = posted[b][i]
    BY <1>7
  <2>6. QED
    BY <2>1, <2>2, <2>3, <2>4, <2>5, WriteStepReader
<1>14. ASSUME NEW c \in Blocks, c # b
       PROVE  LockInv(c)' /\ WriteInv(c)' /\ ContentInv(c)' /\ ReadInv(c)'
  BY <1>1, <1>2, <1>6, <1>7, <1>14, OtherBlock DEF WritePCs
<1>15. QED
  BY <1>8, <1>9, <1>10, <1>11, <1>12, <1>13, <1>14 DEF IInv, BlockInv

LEMMA UnlockAfterWriteStep ==
  ASSUME IInv, NEW t \in Threads, UnlockAfterWrite(t)
  PROVE  IInv'
<1> USE DEF lockVars, blockVars, wakeVars, historyVars
<1>0. PICK b \in Blocks : b = call[t].block
  BY CallFacts DEF UnlockAfterWrite, Goto
<1>1. /\ Writer[b] = t /\ call[t].block = b
      /\ pc[t] = "WriteUnlock" /\ pc' = [pc EXCEPT ![t] = "WakeAll"]
      /\ writeLock' = [writeLock EXCEPT ![b] = None]
      /\ UNCHANGED <<buffer, readLocks, blockVars, wakeVars, call,
                     historyVars>>
  BY <1>0, CallFacts DEF UnlockAfterWrite, Goto, WritePCs
<1>2. /\ pc'[t] = "WakeAll" /\ StepOf(t)
      /\ writeLock'[b] = None
      /\ \A c \in Blocks : c # b => writeLock'[c] = writeLock[c]
  BY <1>1 DEF IInv, TypeOK, StepOf
<1>3. TypeOK'
  BY <1>1, LinksAssumption DEF IInv, TypeOK, PCs, WritePCs
<1>4. RoleInv'
  BY <1>1, <1>2
     DEF IInv, RoleInv, StepOf, WritePCs, ServedReadPCs, CountedReadPCs
<1>5. LockInv(b)'
  <2>1. ~ In(t, b, LockedWritePCs)'
    BY <1>1, <1>2 DEF In, LockedWritePCs
  <2>2. \A u \in Threads : In(u, b, LockedReadPCs)' <=> In(u, b, LockedReadPCs)
    BY <1>1, <1>2 DEF In, StepOf, LockedReadPCs
  <2>3. QED
    BY <1>1, <1>2, <2>1, <2>2, BlockFacts DEF LockInv
<1>6. WriteInv(b)'
  <2>1. WriteInv(b)
    BY <1>1, BlockFacts
  <2>2. QED
    BY <1>1, <1>2, <2>1 DEF WriteInv, Storing, In, WritePCs
<1>7. ContentInv(b)'
  BY <1>1, BlockFacts, ContentFrame
<1>8. ReadInv(b)'
  BY <1>1, <1>2, BlockFacts, WriteStepReader DEF WritePCs
<1>9. ASSUME NEW c \in Blocks, c # b
      PROVE  LockInv(c)' /\ WriteInv(c)' /\ ContentInv(c)' /\ ReadInv(c)'
  BY <1>1, <1>2, <1>9, OtherBlock DEF WritePCs
<1>10. QED
  BY <1>3, <1>4, <1>5, <1>6, <1>7, <1>8, <1>9 DEF IInv, BlockInv

LEMMA WakeAllStep ==
  ASSUME IInv, NEW t \in Threads, WakeAll(t)
  PROVE  IInv'
<1> USE DEF lockVars, blockVars, wakeVars, historyVars
<1>0. PICK b \in Blocks : b = call[t].block
  BY CallFacts DEF WakeAll, Goto, Return
<1>1. /\ Writer[b] = t /\ call[t].block = b
      /\ pc[t] = "WakeAll" /\ pc' = [pc EXCEPT ![t] = "Idle"]
      /\ call' = [call EXCEPT ![t] = NoCall]
      /\ waiters' = {}
      /\ UNCHANGED <<buffer, lockVars, blockVars, mutex, historyVars>>
  BY <1>0, CallFacts DEF WakeAll, Return, Goto, WritePCs
<1>2. /\ pc'[t] = "Idle" /\ StepOf(t)
      /\ call'[t] \in Call /\ call'[t].block = None
  BY <1>1, NoCallType DEF IInv, TypeOK, StepOf
<1>3. TypeOK'
  <2>1. \A u \in Threads : call'[u].block = None <=> pc'[u] = "Idle"
    BY <1>2 DEF IInv, TypeOK, StepOf
  <2>2. QED
    BY <1>1, <1>2, <2>1, NoCallType DEF IInv, TypeOK, PCs
<1>4. RoleInv'
  BY <1>2
     DEF IInv, RoleInv, StepOf, WritePCs, ServedReadPCs, CountedReadPCs
<1>5. LockInv(b)'
  BY <1>1, <1>2, LockFrame DEF In, LockedReadPCs, LockedWritePCs
<1>6. WriteInv(b)'
  <2>1. WriteInv(b)
    BY <1>1, BlockFacts
  <2>2. QED
    BY <1>1, <1>2, <2>1 DEF WriteInv, Storing, In, WritePCs
<1>7. ContentInv(b)'
  BY <1>1, BlockFacts, ContentFrame
<1>8. ReadInv(b)'
  BY <1>1, <1>2, BlockFacts, WriteStepReader DEF WritePCs
<1>9. ASSUME NEW c \in Blocks, c # b
      PROVE  LockInv(c)' /\ WriteInv(c)' /\ ContentInv(c)' /\ ReadInv(c)'
  BY <1>1, <1>2, <1>9, OtherBlock DEF WritePCs
<1>10. QED
  BY <1>3, <1>4, <1>5, <1>6, <1>7, <1>8, <1>9 DEF IInv, BlockInv

-----------------------------------------------------------------------------
(* The invariant.                                                          *)

LEMMA InitIInv == Init => IInv
<1> SUFFICES ASSUME Init PROVE IInv
  OBVIOUS
<1>1. /\ \A b \in Blocks :
           /\ buffer[b] = EmptyBuffer /\ writeLock[b] = None
           /\ readLocks[b] = {} /\ writeCounter[b] = 0 /\ readCounter[b] = 0
           /\ firstPacket[b] = 0 /\ posted[b] = <<>>
      /\ \A t \in Threads : pc[t] = "Idle" /\ call[t] = NoCall
      /\ \A t \in Threads, b \in Blocks : received[t][b] = <<>>
  BY DEF Init
<1>2. \A t \in Threads, b \in Blocks : call[t].block # b
  BY <1>1, NoCallType, LinksAssumption
<1>3. /\ EmptyBuffer \in Buffer /\ EmptyBuffer.busy = FALSE
      /\ EmptyBuffer.nulls = {} /\ EmptyBuffer.packets = <<>>
      /\ NextPacket(EmptyBuffer) = 0
      /\ \A t \in Threads : EmptyBuffer.marker[t] = 0
  BY EmptyBufferType DEF EmptyBuffer, NextPacket
<1>4. TypeOK
  <2>1. /\ posted \in [Blocks -> Seq(Posting)]
        /\ received \in [Threads -> [Blocks -> Seq(Delivery)]]
    BY DEF Init
  <2>2. pc \in [Threads -> PCs]
    BY DEF Init, PCs
  <2>3. call \in [Threads -> Call]
        /\ \A t \in Threads : call[t].block = None <=> pc[t] = "Idle"
    BY <1>1, NoCallType DEF Init
  <2>4. QED
    BY <1>3, <2>1, <2>2, <2>3, LinksAssumption DEF Init, TypeOK
<1>5. RoleInv
  BY <1>1 DEF RoleInv, WritePCs, ServedReadPCs, CountedReadPCs
<1>6. ASSUME NEW b \in Blocks
      PROVE  LockInv(b) /\ WriteInv(b) /\ ContentInv(b) /\ ReadInv(b)
  <2>1. /\ Writer[b] \in Threads /\ FirstLinked[b] \in Threads
        /\ Len(posted[b]) = 0 /\ Len(Delivered(b)) = 0
    BY <1>1, LinksAssumption DEF Delivered
  <2>2. LockInv(b)
    BY <1>1, <1>2, <2>1 DEF LockInv, In
  <2>3. WriteInv(b)
    BY <1>1, <1>2, <1>3, <2>1 DEF WriteInv, Storing, In
  <2>4. ContentInv(b)
    BY <2>1 DEF ContentInv
  <2>5. ReadInv(b)
    BY <1>1, <1>2, <1>3, <2>1 DEF ReadInv, InOrder, In
  <2>6. QED
    BY <2>2, <2>3, <2>4, <2>5
<1>7. QED
  BY <1>4, <1>5, <1>6 DEF IInv, BlockInv

\* A step that touches none of the variables the invariant is about.
LEMMA QuietStep ==
  ASSUME IInv, TypeOK',
         UNCHANGED <<buffer, lockVars, writeCounter, readCounter, firstPacket,
                     pc, call, historyVars>>
  PROVE  IInv'
<1> USE DEF lockVars, historyVars
<1>1. RoleInv'
  BY DEF IInv, RoleInv
<1>2. ASSUME NEW b \in Blocks
      PROVE  LockInv(b)' /\ WriteInv(b)' /\ ContentInv(b)' /\ ReadInv(b)'
  <2>1. LockInv(b) /\ WriteInv(b) /\ ContentInv(b) /\ ReadInv(b)
    BY BlockFacts
  <2>2. /\ UNCHANGED <<pc, call, buffer, posted, writeCounter, firstPacket>>
        /\ UNCHANGED <<readCounter, received, writeLock, readLocks>>
    OBVIOUS
  <2>3. LockInv(b)'
    BY <2>1, <2>2 DEF LockInv, In
  <2>4. WriteInv(b)'
    BY <2>1, <2>2 DEF WriteInv, Storing, LastOf, In, NextPacket
  <2>5. ContentInv(b)'
    BY <2>1, <2>2 DEF ContentInv
  <2>6. ReadInv(b)'
    BY <2>1, <2>2 DEF ReadInv, In, Delivered, InOrder, SamePacket, NextPacket
  <2>. QED
    BY <2>3, <2>4, <2>5, <2>6
<1>3. QED
  BY <1>1, <1>2 DEF IInv, BlockInv

LEMMA SetEnabledStep ==
  ASSUME IInv, NEW b \in Blocks, NEW isEnabled \in BOOLEAN,
         SetEnabled(b, isEnabled)
  PROVE  IInv'
<1>1. enabled' \in [Blocks -> BOOLEAN]
  BY DEF SetEnabled, IInv, TypeOK
<1>2. TypeOK'
  BY <1>1 DEF SetEnabled, IInv, TypeOK, lockVars, wakeVars, historyVars
<1>3. QED
  BY <1>2, QuietStep DEF SetEnabled

LEMMA NextIInv == IInv /\ [Next]_vars => IInv'
<1> SUFFICES ASSUME IInv, [Next]_vars PROVE IInv'
  OBVIOUS
<1>1. ASSUME NEW t \in Threads, WriteStep(t)
      PROVE  IInv'
  BY <1>1, BufferWriteLockStep, SetBusyWriteStep, WriteByteStep,
     ClearBusyWriteStep, UnlockAfterWriteStep, WakeAllStep DEF WriteStep
<1>2. ASSUME NEW t \in Threads, ReadStep(t)
      PROVE  IInv'
  BY <1>2, LoadBusyStep, LoadSizeStep, WaitStep, WakeUpStep,
     UpdateReaderStep, SizeofPacketStep, BufferReadLockStep, CopyPacketStep,
     UnlockAfterReadStep, DeletePacketStep DEF ReadStep
<1>3. ASSUME NEW t \in Threads, NEW b \in Blocks, ReadMemory(t, b)
      PROVE  IInv'
  BY <1>3, ReadMemoryStep
<1>4. ASSUME NEW t \in Threads, NEW b \in Blocks, NEW n \in Sizes,
             WriteMemory(t, b, n)
      PROVE  IInv'
  BY <1>4, WriteMemoryStep
<1>5. ASSUME NEW b \in Blocks, NEW isEnabled \in BOOLEAN,
             SetEnabled(b, isEnabled)
      PROVE  IInv'
  BY <1>5, SetEnabledStep
<1>6. CASE UNCHANGED vars
  <2>1. TypeOK'
    BY <1>6
       DEF vars, IInv, TypeOK, lockVars, blockVars, wakeVars, historyVars
  <2>2. QED
    BY <1>6, <2>1, QuietStep DEF vars, lockVars, blockVars, historyVars
<1>7. QED
  BY <1>1, <1>2, <1>3, <1>4, <1>5, <1>6 DEF Next

\* Every reachable state of the data path satisfies the inductive invariant.
THEOREM Invariance == Spec => []IInv
  BY InitIInv, NextIInv, PTL DEF Spec

\* The variables keep their types, and a thread has a call exactly while it
\* is in ReadMemory or WriteMemory.
THEOREM TypeCorrect == Spec => []TypeOK
<1>1. IInv => TypeOK
  BY DEF IInv
<1>2. QED
  BY <1>1, Invariance, PTL

\* What a reader copies (GRIMemoryManager::ReadMemory) is, packet by packet,
\* what was posted: nothing lost, repeated, reordered or half written, for
\* any number of threads, blocks and packets.
THEOREM FirstInFirstOut == Spec => []CopiesArePostings
<1>1. IInv => CopiesArePostings
  BY DEF IInv, BlockInv, ReadInv, InOrder, CopiesArePostings
<1>2. QED
  BY <1>1, Invariance, PTL

\* GRIDataBlock::DeletePacket clears no packet that is still to be copied.
THEOREM NothingDeletedUnread == Spec => []UnreadPacketsKept
<1>1. ASSUME IInv, NEW b \in Blocks,
             NEW i \in Len(Delivered(b)) + 1 .. Len(posted[b])
      PROVE  SamePacket(buffer[b].packets[i], posted[b][i])
  <2>1. /\ ContentInv(b) /\ ReadInv(b)
        /\ Len(Delivered(b)) \in Nat /\ Len(posted[b]) \in Nat
        /\ firstPacket[b] \in Nat
    BY <1>1, BlockFacts
  <2>2. i \in 1 .. Len(posted[b]) /\ i > firstPacket[b]
    BY <1>1, <2>1 DEF ReadInv
  <2>3. QED
    BY <2>1, <2>2 DEF ContentInv, InOrder, SamePacket
<1>2. IInv => UnreadPacketsKept
  BY <1>1 DEF UnreadPacketsKept
<1>3. QED
  BY <1>2, Invariance, PTL

\* The wait on wait_queue_ inside GRIMemoryManager::ReadMemory is dead code.
THEOREM QueueIsDead == Spec => []NeverWaitsOnQueue
<1>1. IInv => NeverWaitsOnQueue
  BY DEF IInv, RoleInv, NeverWaitsOnQueue
<1>2. QED
  BY <1>1, Invariance, PTL

\* Between two calls of WriteMemory on a block every packet counted by
\* UpdateWriter is in the buffer, whole, and its lock is free.
THEOREM NothingCountedIsMissing == Spec => []CountedPacketsAreWritten
<1>1. ASSUME IInv, NEW b \in Blocks, ~ In(Writer[b], b, WritePCs)
      PROVE  /\ Len(posted[b]) = writeCounter[b]
             /\ NextPacket(buffer[b]) = writeCounter[b]
             /\ ~ buffer[b].busy
             /\ writeLock[b] = None
  <2>1. LockInv(b) /\ WriteInv(b)
    BY <1>1, BlockFacts
  <2>2. QED
    BY <1>1, <2>1 DEF LockInv, WriteInv, In, WritePCs, LockedWritePCs
<1>2. IInv => CountedPacketsAreWritten
  BY <1>1 DEF CountedPacketsAreWritten
<1>3. QED
  BY <1>2, Invariance, PTL
-----------------------------------------------------------------------------
(* The refinement.  Two kinds of step change what the abstract stream      *)
(* shows: the end of a write, which is a Post, and the copy of the reader, *)
(* which is a Deliver; every other step is a stutter.                      *)

\* What was asked for: the accepted writes of a block are at most MaxWrites,
\* and a writer writes one of the Sizes.
RequestInv ==
  /\ \A b \in Blocks : writeCounter[b] <= MaxWrites
  /\ \A t \in Threads : pc[t] \in WritePCs => call[t].size \in Sizes

\* A step of thread t that keeps its request, or leaves it outside a write.
LEMMA RequestFrame ==
  ASSUME RequestInv, NEW t \in Threads, StepOf(t),
         writeCounter' = writeCounter,
         \/ pc'[t] \notin WritePCs
         \/ pc[t] \in WritePCs /\ call'[t].size = call[t].size
  PROVE  RequestInv'
  BY DEF RequestInv, StepOf

LEMMA WriteStepRequest ==
  ASSUME IInv, RequestInv, NEW t \in Threads, WriteStep(t)
  PROVE  RequestInv'
<1> USE DEF blockVars
<1>1. CASE BufferWriteLock(t) \/ SetBusyWrite(t) \/ ClearBusyWrite(t)
             \/ UnlockAfterWrite(t)
  <2>1. /\ pc[t] \in WritePCs
        /\ \A u \in Threads : u # t => pc'[u] = pc[u]
        /\ UNCHANGED <<writeCounter, call>>
    BY <1>1
       DEF BufferWriteLock, SetBusyWrite, ClearBusyWrite, UnlockAfterWrite,
           Goto, WritePCs, IInv, TypeOK
  <2>2. QED
    BY <2>1, RequestFrame DEF StepOf
<1>2. CASE WriteByte(t)
  <2>1. /\ pc[t] = "WriteBytes" /\ writeCounter' = writeCounter
        /\ \/ call' = [call EXCEPT ![t].index = @ + 1]
           \/ pc' = [pc EXCEPT ![t] = "Idle"]
              /\ call' = [call EXCEPT ![t] = NoCall]
        /\ pc' = pc \/ \E to \in PCs : pc' = [pc EXCEPT ![t] = to]
    BY <1>2 DEF WriteByte, Goto, Return, PCs, WritePCs
  <2>2. StepOf(t)
    BY <2>1 DEF StepOf, IInv, TypeOK
  <2>3. \/ pc'[t] \notin WritePCs
        \/ pc[t] \in WritePCs /\ call'[t].size = call[t].size
    BY SMTT(30), <2>1 DEF IInv, TypeOK, WritePCs, Call
  <2>4. QED
    BY <2>1, <2>2, <2>3, RequestFrame
<1>3. CASE WakeAll(t)
  <2>1. pc'[t] \notin WritePCs /\ StepOf(t) /\ writeCounter' = writeCounter
    BY <1>3 DEF WakeAll, Return, Goto, WritePCs, StepOf, IInv, TypeOK
  <2>2. QED
    BY <2>1, RequestFrame
<1>4. QED
  BY <1>1, <1>2, <1>3 DEF WriteStep

LEMMA ReadStepRequest ==
  ASSUME IInv, RequestInv, NEW t \in Threads, ReadStep(t)
  PROVE  RequestInv'
<1> USE DEF blockVars
<1>1. writeCounter' = writeCounter
  BY DEF ReadStep, LoadBusy, LoadSize, Wait, WakeUp, UpdateReader,
         SizeofPacket, BufferReadLock, CopyPacket, UnlockAfterRead,
         DeletePacket
<1>2. /\ \E to \in PCs \ WritePCs : pc' = [pc EXCEPT ![t] = to]
      /\ call' = call \/ \E c : call' = [call EXCEPT ![t] = c]
  BY DEF ReadStep, LoadBusy, LoadSize, Wait, WakeUp, UpdateReader,
         SizeofPacket, BufferReadLock, CopyPacket, UnlockAfterRead,
         DeletePacket, Goto, Return, PCs, ReadPCs, WritePCs
<1>3. pc'[t] \notin WritePCs /\ StepOf(t)
  BY <1>2 DEF StepOf, IInv, TypeOK
<1>4. QED
  BY <1>1, <1>3, RequestFrame

LEMMA RequestsStay == IInv /\ RequestInv /\ [Next]_vars => RequestInv'
<1> SUFFICES ASSUME IInv, RequestInv, [Next]_vars PROVE RequestInv'
  OBVIOUS
<1>1. ASSUME NEW t \in Threads, NEW b \in Blocks, ReadMemory(t, b)
      PROVE  RequestInv'
  <2>1. pc'[t] \notin WritePCs /\ StepOf(t) /\ writeCounter' = writeCounter
    BY <1>1 DEF ReadMemory, Goto, WritePCs, StepOf, IInv, TypeOK, blockVars
  <2>2. QED
    BY <2>1, RequestFrame
<1>2. ASSUME NEW t \in Threads, NEW b \in Blocks, NEW n \in Sizes,
             WriteMemory(t, b, n)
      PROVE  RequestInv'
  <2>1. /\ writeCounter[b] < MaxWrites
        /\ writeCounter' = [writeCounter EXCEPT ![b] = @ + 1]
        /\ writeCounter \in [Blocks -> Nat]
        /\ call'[t].size = n
        /\ \A u \in Threads : u # t => pc'[u] = pc[u] /\ call'[u] = call[u]
    BY <1>2 DEF WriteMemory, Goto, NewCall, IInv, TypeOK
  <2>2. \A c \in Blocks : writeCounter'[c] <= MaxWrites
    BY <2>1, BoundsAssumption DEF RequestInv
  <2>3. QED
    BY <2>1, <2>2 DEF RequestInv
<1>3. ASSUME NEW b \in Blocks, NEW isEnabled \in BOOLEAN,
             SetEnabled(b, isEnabled)
      PROVE  RequestInv'
  BY <1>3 DEF SetEnabled, RequestInv
<1>4. CASE UNCHANGED vars
  BY <1>4 DEF vars, blockVars, RequestInv
<1>5. QED
  BY <1>1, <1>2, <1>3, <1>4, WriteStepRequest, ReadStepRequest DEF Next

LEMMA RequestsAreBounded == Spec => []RequestInv
<1>1. Init => RequestInv
  BY BoundsAssumption DEF Init, RequestInv, WritePCs
<1>2. QED
  BY <1>1, RequestsStay, Invariance, PTL DEF Spec

\* A packet as the stream shows it, and what Bare makes of a sequence.
BarePacket(p) == [call |-> p.call, bytes |-> p.bytes]

LEMMA BareType ==
  ASSUME NEW S, \A p \in S : p.call \in Nat /\ p.bytes \in Nat,
         NEW s \in Seq(S)
  PROVE  /\ Bare(s) \in Seq([call : Nat, bytes : Nat])
         /\ Len(Bare(s)) = Len(s)
         /\ \A i \in 1 .. Len(s) : Bare(s)[i] = BarePacket(s[i])
<1>1. Len(s) \in Nat /\ \A i \in 1 .. Len(s) : s[i] \in S
  BY ElementOfSeq, LenProperties
<1>2. \A i \in 1 .. Len(s) : BarePacket(s[i]) \in [call : Nat, bytes : Nat]
  BY <1>1 DEF BarePacket
<1>3. Bare(s) = [i \in 1 .. Len(s) |-> BarePacket(s[i])]
  BY DEF Bare, BarePacket
<1>4. QED
  BY <1>1, <1>2, <1>3

LEMMA BareAppend ==
  ASSUME NEW S, \A p \in S : p.call \in Nat /\ p.bytes \in Nat,
         NEW s \in Seq(S), NEW e \in S
  PROVE  Bare(Append(s, e)) = Append(Bare(s), BarePacket(e))
<1> DEFINE T == [call : Nat, bytes : Nat]
           n == Len(s)
<1>1. /\ Append(s, e) \in Seq(S) /\ Len(Append(s, e)) = n + 1
      /\ \A i \in 1 .. n : Append(s, e)[i] = s[i]
      /\ Append(s, e)[n + 1] = e
      /\ n \in Nat
  BY AppendProperties, LenProperties
<1>2. /\ Bare(s) \in Seq(T) /\ Len(Bare(s)) = n
      /\ \A i \in 1 .. n : Bare(s)[i] = BarePacket(s[i])
  BY BareType
<1>3. /\ Bare(Append(s, e)) \in Seq(T) /\ Len(Bare(Append(s, e))) = n + 1
      /\ \A i \in 1 .. n + 1 :
           Bare(Append(s, e))[i] = BarePacket(Append(s, e)[i])
  BY <1>1, BareType
<1>4. BarePacket(e) \in T
  BY DEF BarePacket
<1>5. /\ Append(Bare(s), BarePacket(e)) \in Seq(T)
      /\ Len(Append(Bare(s), BarePacket(e))) = n + 1
      /\ \A i \in 1 .. n : Append(Bare(s), BarePacket(e))[i] = Bare(s)[i]
      /\ Append(Bare(s), BarePacket(e))[n + 1] = BarePacket(e)
  BY <1>2, <1>4, AppendProperties
<1>6. \A i \in 1 .. n + 1 :
        Bare(Append(s, e))[i] = Append(Bare(s), BarePacket(e))[i]
  <2>1. \A i \in 1 .. n + 1 : i \in 1 .. n \/ i = n + 1
    BY <1>1
  <2>2. QED
    BY <1>1, <1>2, <1>3, <1>5, <2>1
<1>7. QED
  BY SMTT(30), <1>1, <1>3, <1>5, <1>6, SeqEqual

LEMMA BareEmpty == Bare(<<>>) = <<>>
  BY DEF Bare

LEMMA HistoryTypes ==
  /\ \A p \in Posting : p.call \in Nat /\ p.bytes \in Nat
  /\ \A p \in Delivery : p.call \in Nat /\ p.bytes \in Nat
  BY DEF Posting, Delivery

\* The steps that change the histories.
LEMMA HistorySteps ==
  ASSUME [Next]_vars
  PROVE  \/ UNCHANGED historyVars
         \/ \E t \in Threads : ClearBusyWrite(t) \/ CopyPacket(t)
  BY ZenonT(40) DEF Next, vars, WriteStep, ReadStep, historyVars, BufferWriteLock,
         SetBusyWrite, WriteByte, UnlockAfterWrite, WakeAll, LoadBusy,
         LoadSize, Wait, WakeUp, UpdateReader, SizeofPacket, BufferReadLock,
         UnlockAfterRead, DeletePacket, ReadMemory, WriteMemory, SetEnabled

\* The stream shows nothing of a step that changes no history.
LEMMA StutterStep ==
  ASSUME UNCHANGED historyVars
  PROVE  UNCHANGED <<[b \in Blocks |-> Bare(posted[b])],
                     [b \in Blocks |-> Bare(Delivered(b))]>>
  BY DEF historyVars, Delivered

\* The end of a write posts the whole packet.
LEMMA PostStep ==
  ASSUME IInv, RequestInv, NEW t \in Threads, ClearBusyWrite(t)
  PROVE  Stream!StreamNext
<1>0. PICK b \in Blocks : b = call[t].block
  BY CallFacts DEF ClearBusyWrite, Goto
<1> DEFINE e == [call  |-> writeCounter[b],
                 bytes |-> StoredBytes(call[t].size),
                 size  |-> call[t].size]
<1>1. pc[t] = "ClearBusy" /\ Writer[b] = t
  BY <1>0, CallFacts DEF ClearBusyWrite, Goto, WritePCs
<1>2. /\ posted' = [posted EXCEPT ![b] = Append(posted[b], e)]
      /\ received' = received
      /\ posted[b] \in Seq(Posting)
      /\ \A c \in Blocks : c # b => posted'[c] = posted[c]
      /\ posted'[b] = Append(posted[b], e)
  BY <1>0 DEF ClearBusyWrite, IInv, TypeOK
<1>3. /\ writeCounter[b] \in Nat \ {0} /\ writeCounter[b] <= MaxWrites
      /\ call[t].size \in Sizes
  <2>1. /\ WriteInv(b) /\ writeCounter[b] \in Nat /\ Len(posted[b]) \in Nat
    BY BlockFacts
  <2>2. Len(posted[b]) + 1 = writeCounter[b]
    BY <1>0, <1>1, <2>1 DEF WriteInv, In
  <2>3. QED
    BY <1>1, <2>1, <2>2, BoundsAssumption DEF RequestInv, WritePCs
<1>4. e \in Posting
  <2>1. writeCounter[b] \in Nat \ {0} /\ call[t].size \in Nat
    BY <1>3, BoundsAssumption
  <2>2. StoredBytes(call[t].size) \in Nat
    BY <2>1 DEF StoredBytes
  <2>3. QED
    BY <2>1, <2>2 DEF Posting
<1>5. BarePacket(e) \in [call  : 1 .. MaxWrites,
                         bytes : {StoredBytes(n) : n \in Sizes}]
  <2>1. writeCounter[b] \in 1 .. MaxWrites
    BY <1>3, BoundsAssumption
  <2>2. QED
    BY <1>3, <2>1 DEF BarePacket
<1> HIDE DEF e
<1>6. Bare(posted'[b]) = Append(Bare(posted[b]), BarePacket(e))
  BY <1>2, <1>4, BareAppend, HistoryTypes
<1>7. [c \in Blocks |-> Bare(posted'[c])]
        = [[c \in Blocks |-> Bare(posted[c])] EXCEPT ![b] =
             Append(@, BarePacket(e))]
  <2>1. ASSUME NEW c \in Blocks
        PROVE  Bare(posted'[c])
                 = IF c = b THEN Append(Bare(posted[b]), BarePacket(e))
                            ELSE Bare(posted[c])
    <3>1. CASE c = b
      BY <1>6, <3>1
    <3>2. CASE c # b
      BY <1>2, <2>1, <3>2
    <3>3. QED
      BY <3>1, <3>2
  <2>2. QED
    BY <2>1, Zenon
<1>8. [c \in Blocks |-> Bare(Delivered(c))]'
        = [c \in Blocks |-> Bare(Delivered(c))]
  BY <1>2 DEF Delivered
<1>9. Stream!Post(b, BarePacket(e))
  BY <1>7, <1>8 DEF Stream!Post
<1>10. QED
  BY <1>5, <1>9 DEF Stream!StreamNext

\* The copy delivers the packet that was posted next.
LEMMA DeliverStep ==
  ASSUME IInv, NEW t \in Threads, CopyPacket(t)
  PROVE  Stream!StreamNext
<1>0. PICK b \in Blocks : b = call[t].block
  BY CallFacts DEF CopyPacket
<1>1. PICK k \in Nat : k = Len(Delivered(b))
  BY BlockFacts
<1> DEFINE d == [call   |-> buffer[b].packets[k + 1].call,
                 bytes  |-> PacketSize(buffer[b], k),
                 length |-> call[t].length]
<1>2. /\ FirstLinked[b] = t /\ k < Len(posted[b])
      /\ CurrentPacket(buffer[b], t) = k
      /\ k < BufferSize(buffer[b])
  BY <1>0, <1>1, CopyFacts DEF CopyPacket
<1>3. /\ received' = [received EXCEPT ![t][b] = Append(@, d)]
      /\ posted' = posted
      /\ received \in [Threads -> [Blocks -> Seq(Delivery)]]
  BY <1>0, <1>2 DEF CopyPacket, IInv, TypeOK
<1> HIDE DEF d
<1>4. /\ Delivered(b)' = Append(Delivered(b), d)
      /\ \A c \in Blocks : c # b => Delivered(c)' = Delivered(c)
  <2>1. /\ received'[t] = [received[t] EXCEPT ![b] = Append(@, d)]
        /\ \A u \in Threads : u # t => received'[u] = received[u]
    BY <1>3
  <2>2. /\ received'[t][b] = Append(received[t][b], d)
        /\ \A c \in Blocks : c # b => received'[t][c] = received[t][c]
    BY <1>3, <2>1
  <2>3. \A c \in Blocks : FirstLinked[c] \in Threads
    BY LinksAssumption
  <2>4. QED
    BY <1>2, <2>1, <2>2, <2>3 DEF Delivered
<1>5. /\ Delivered(b) \in Seq(Delivery)
      /\ posted[b] \in Seq(Posting) /\ Len(posted[b]) \in Nat
      /\ k + 1 \in 1 .. Len(posted[b])
  BY <1>1, <1>2, BlockFacts
<1>6. d \in Delivery /\ SamePacket(d, posted[b][k + 1])
  <2>1. pc[t] = "CopyPacket"
    BY DEF CopyPacket
  <2>2. QED
    BY <1>0, <1>1, <2>1, CopiedPacket DEF d
<1>7. BarePacket(d) = BarePacket(posted[b][k + 1])
  BY <1>6 DEF SamePacket, BarePacket
<1>8. /\ Bare(Append(Delivered(b), d)) = Append(Bare(Delivered(b)), BarePacket(d))
      /\ Len(Bare(Delivered(b))) = k
      /\ Len(Bare(posted[b])) = Len(posted[b])
      /\ Bare(posted[b])[k + 1] = BarePacket(posted[b][k + 1])
  <2>1. Bare(Append(Delivered(b), d)) = Append(Bare(Delivered(b)), BarePacket(d))
    BY <1>5, <1>6, BareAppend, HistoryTypes
  <2>2. Len(Bare(Delivered(b))) = k
    BY <1>1, <1>5, BareType, HistoryTypes
  <2>3. QED
    BY <1>5, <2>1, <2>2, BareType, HistoryTypes
<1>9. [c \in Blocks |-> Bare(Delivered(c)')]
        = [[c \in Blocks |-> Bare(Delivered(c))] EXCEPT ![b] =
             Append(@, Bare(posted[b])[k + 1])]
  <2>1. ASSUME NEW c \in Blocks
        PROVE  Bare(Delivered(c)')
                 = IF c = b
                   THEN Append(Bare(Delivered(b)), Bare(posted[b])[k + 1])
                   ELSE Bare(Delivered(c))
    BY <1>4, <1>7, <1>8
  <2>2. QED
    BY <2>1, Zenon
<1>10. Stream!Deliver(b)
  BY <1>2, <1>3, <1>8, <1>9 DEF Stream!Deliver
<1>11. QED
  BY <1>10 DEF Stream!StreamNext

\* The steps of the writers and readers, under every interleaving, implement
\* the stream.
THEOREM Refinement == Spec => ImplementsStream
<1>1. Init => Stream!StreamInit
  BY LinksAssumption, BareEmpty DEF Init, Stream!StreamInit, Delivered
<1>2. IInv /\ RequestInv /\ [Next]_vars
        => [Stream!StreamNext]_<<[b \in Blocks |-> Bare(posted[b])],
                                 [b \in Blocks |-> Bare(Delivered(b))]>>
  BY HistorySteps, StutterStep, PostStep, DeliverStep
<1>3. QED
  BY <1>1, <1>2, Invariance, RequestsAreBounded, PTL
     DEF Spec, ImplementsStream, Stream!StreamSpec

-----------------------------------------------------------------------------
(* The analysis threads. *)

\* Calls are made in Analyze(), and a thread that Qt has registered as waiting
\* is in the wait.
OneCallAtATime ==
  \A t \in AnalysisThreads :
    /\ place[t] # "Analyze" => pc[t] = "Idle"
    /\ t \in waiters => pc[t] = "Asleep"

LifeInv == LifeTypeOK /\ OneCallAtATime

\* What run(), Start() and Stop() do is no step of the data path.
LEMMA LifeSteps ==
  ASSUME [AnalysisNext]_analysisVars
  PROVE  [Next]_vars
<1>1. ASSUME NEW name, CallRegulator(name) PROVE UNCHANGED vars
  BY <1>1 DEF CallRegulator
<1>2. ASSUME NEW t, SetRunFlag(t) \/ StartThread(t) \/ SetExitThreadFlag(t)
                      \/ ForceQuitAnalysis(t) \/ Look(t) \/ EndAnalyze(t)
      PROVE  UNCHANGED vars
  BY <1>2 DEF SetRunFlag, StartThread, SetExitThreadFlag, ForceQuitAnalysis,
              Look, Outer, IdleRun, IdleExit, Sleep, LoopRun, LoopExit,
              EndAnalyze, Jump
<1>3. ASSUME NEW t \in Threads, DataStep(t) PROVE Next
  BY <1>3 DEF DataStep, Next
<1>4. ASSUME NEW t \in Threads, NEW b \in Blocks, DataCall(t, b) PROVE Next
  BY <1>4 DEF DataCall, Next
<1>5. ASSUME NEW b \in Blocks, NEW isEnabled \in BOOLEAN,
             SetEnabled(b, isEnabled)
      PROVE  Next
  BY <1>5 DEF Next
<1>6. UNCHANGED analysisVars => UNCHANGED vars
  BY DEF analysisVars
<1>. QED
  BY <1>1, <1>2, <1>3, <1>4, <1>5, <1>6 DEF AnalysisNext

\* The threads, however they are started and stopped, are threads of the data
\* path: all that is proved of GRIRegulator holds of them.
THEOREM AnalysisImplementsDataPath == AnalysisSpec => Spec
<1>1. AnalysisInit => Init
  BY DEF AnalysisInit
<1>2. [AnalysisNext]_analysisVars => [Next]_vars
  BY LifeSteps
<1>. QED
  BY <1>1, <1>2, PTL DEF AnalysisSpec, Spec

\* A step of the data path is taken by a thread that is in a call, and only
\* Wait() registers a waiting thread.
LEMMA DataStepFacts ==
  ASSUME TypeOK, NEW t \in Threads, WriteStep(t) \/ ReadStep(t)
  PROVE  /\ pc[t] # "Idle"
         /\ \A u \in Threads : u # t => pc'[u] = pc[u]
         /\ \A u \in Threads : u # t /\ u \in waiters' => u \in waiters
         /\ (t \in waiters => pc[t] = "Asleep")
              => (t \in waiters' => pc'[t] = "Asleep")
<1>. pc \in [Threads -> PCs]
  BY DEF TypeOK
<1>. USE DEF Goto, Return, wakeVars
<1>1. CASE WriteStep(t)
  BY <1>1 DEF WriteStep, BufferWriteLock, SetBusyWrite, WriteByte,
              ClearBusyWrite, UnlockAfterWrite, WakeAll
<1>2. CASE LoadBusy(t) \/ LoadSize(t)
  BY <1>2 DEF LoadBusy, LoadSize
<1>3. CASE Wait(t)
  BY <1>3 DEF Wait
<1>4. CASE WakeUp(t)
  BY <1>4 DEF WakeUp
<1>5. CASE \/ UpdateReader(t) \/ SizeofPacket(t) \/ BufferReadLock(t)
           \/ CopyPacket(t) \/ UnlockAfterRead(t) \/ DeletePacket(t)
  BY <1>5 DEF UpdateReader, SizeofPacket, BufferReadLock, CopyPacket,
              UnlockAfterRead, DeletePacket
<1>. QED
  BY <1>1, <1>2, <1>3, <1>4, <1>5 DEF ReadStep

\* A call begins with an idle thread, which waits for nothing.
LEMMA DataCallFacts ==
  ASSUME TypeOK, NEW t \in Threads, NEW b \in Blocks, DataCall(t, b)
  PROVE  /\ MayCall(t)
         /\ pc[t] = "Idle"
         /\ \A u \in Threads : u # t => pc'[u] = pc[u]
         /\ waiters' = waiters
  BY DEF TypeOK, DataCall, ReadMemory, WriteMemory, Goto, wakeVars

LEMMA LifeInvariant ==
  TypeOK /\ LifeInv /\ [AnalysisNext]_analysisVars => LifeInv'
<1>. SUFFICES ASSUME TypeOK, LifeInv, [AnalysisNext]_analysisVars
              PROVE  LifeInv'
  OBVIOUS
<1>. USE AnalysisAssumption DEF wakeVars
<1>1. ASSUME NEW name \in {"Start", "Stop"}, CallRegulator(name)
      PROVE  LifeInv'
  BY <1>1 DEF LifeInv, LifeTypeOK, OneCallAtATime, CallRegulator, vars, flagVars
<1>2. ASSUME NEW t \in AnalysisThreads, SetRunFlag(t) PROVE LifeInv'
  BY <1>2 DEF LifeInv, LifeTypeOK, OneCallAtATime, SetRunFlag, vars
<1>3. ASSUME NEW t \in AnalysisThreads, StartThread(t) PROVE LifeInv'
  BY <1>3 DEF LifeInv, LifeTypeOK, OneCallAtATime, StartThread, Through, vars,
              flagVars, Places
<1>4. ASSUME NEW t \in AnalysisThreads, SetExitThreadFlag(t) PROVE LifeInv'
  BY <1>4 DEF LifeInv, LifeTypeOK, OneCallAtATime, SetExitThreadFlag, Through, vars
<1>5. ASSUME NEW t \in AnalysisThreads, ForceQuitAnalysis(t) PROVE LifeInv'
  BY <1>5 DEF LifeInv, LifeTypeOK, OneCallAtATime, ForceQuitAnalysis, vars,
              startVars
<1>6. ASSUME NEW t \in AnalysisThreads, Look(t) \/ EndAnalyze(t)
      PROVE  LifeInv'
  <2>1. PICK to \in Places :
          /\ place' = [place EXCEPT ![t] = to]
          /\ UNCHANGED <<vars, flagVars, startVars>>
          /\ pc[t] = "Idle"
    BY <1>6 DEF Look, Outer, IdleRun, IdleExit, Sleep, LoopRun, LoopExit,
                EndAnalyze, Jump, Places, LifeInv, OneCallAtATime
  <2>. QED
    BY <2>1 DEF LifeInv, LifeTypeOK, OneCallAtATime, vars, flagVars, startVars
<1>7. ASSUME NEW t \in Threads, DataStep(t) PROVE LifeInv'
  BY <1>7, DataStepFacts
     DEF DataStep, lifeVars, flagVars, startVars, LifeInv, LifeTypeOK,
         OneCallAtATime
<1>8. ASSUME NEW t \in Threads, NEW b \in Blocks, DataCall(t, b)
      PROVE  LifeInv'
  BY <1>8, DataCallFacts
     DEF DataCall, MayCall, lifeVars, flagVars, startVars, LifeInv, LifeTypeOK,
         OneCallAtATime
<1>9. ASSUME NEW b \in Blocks, NEW isEnabled \in BOOLEAN,
             SetEnabled(b, isEnabled), UNCHANGED lifeVars
      PROVE  LifeInv'
  BY <1>9
     DEF SetEnabled, lifeVars, flagVars, startVars, LifeInv, LifeTypeOK,
         OneCallAtATime
<1>10. CASE UNCHANGED analysisVars
  BY <1>10
     DEF analysisVars, vars, lifeVars, flagVars, startVars, LifeInv, LifeTypeOK,
         OneCallAtATime
<1>. QED
  BY <1>1, <1>2, <1>3, <1>4, <1>5, <1>6, <1>7, <1>8, <1>9, <1>10
     DEF AnalysisNext

\* The variables of the analysis threads have their types, and a thread makes
\* its calls in Analyze().
LEMMA LifeInvariance == AnalysisSpec => []LifeInv
<1>1. AnalysisInit => LifeInv
  BY AnalysisAssumption
     DEF AnalysisInit, Init, LifeInv, LifeTypeOK, OneCallAtATime, Places
<1>2. AnalysisSpec => []TypeOK
  BY AnalysisImplementsDataPath, TypeCorrect, PTL
<1>. QED
  BY <1>1, <1>2, LifeInvariant, PTL DEF AnalysisSpec

\* Wherever a stop finds it, an analysis thread ends with no lock of a buffer
\* held, no write begun, and no packet counted that it was not given.
THEOREM ThreadsEndBetweenPackets == AnalysisSpec => []EndsBetweenPackets
<1>1. IInv /\ LifeInv => EndsBetweenPackets
  <2>. SUFFICES ASSUME IInv, LifeInv, NEW t \in AnalysisThreads,
                       place[t] = "NotRunning"
                PROVE  /\ t \notin waiters
                       /\ \A b \in Blocks :
                            /\ writeLock[b] # t /\ t \notin readLocks[b]
                            /\ Writer[b] = t =>
                                 Len(posted[b]) = writeCounter[b] /\ ~ buffer[b].busy
                            /\ FirstLinked[b] = t =>
                                 readCounter[b] = Len(Delivered(b))
    BY DEF EndsBetweenPackets
  <2>1. pc[t] = "Idle" /\ t \in Threads
    BY AnalysisAssumption DEF LifeInv, OneCallAtATime
  <2>2. t \notin waiters
    BY <2>1 DEF LifeInv, OneCallAtATime
  <2>3. ASSUME NEW b \in Blocks
        PROVE  /\ writeLock[b] # t /\ t \notin readLocks[b]
               /\ Writer[b] = t =>
                    Len(posted[b]) = writeCounter[b] /\ ~ buffer[b].busy
               /\ FirstLinked[b] = t => readCounter[b] = Len(Delivered(b))
    <3>1. LockInv(b) /\ WriteInv(b) /\ ReadInv(b)
      BY DEF IInv, BlockInv
    <3>2. writeLock[b] # t /\ t \notin readLocks[b]
      BY <2>1, <3>1, LinksAssumption
         DEF LockInv, In, LockedWritePCs, LockedReadPCs
    <3>3. Writer[b] = t => Len(posted[b]) = writeCounter[b] /\ ~ buffer[b].busy
      BY <2>1, <3>1 DEF WriteInv, In
    <3>4. FirstLinked[b] = t => readCounter[b] = Len(Delivered(b))
      BY <2>1, <3>1 DEF ReadInv, In, CountedReadPCs
    <3>. QED
      BY <3>2, <3>3, <3>4
  <2>. QED
    BY <2>2, <2>3
<1>2. AnalysisSpec => []IInv
  BY AnalysisImplementsDataPath, Invariance, PTL
<1>. QED
  BY <1>1, <1>2, LifeInvariance, PTL
=============================================================================
