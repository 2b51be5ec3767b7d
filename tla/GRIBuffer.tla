------------------------------ MODULE GRIBuffer ------------------------------
(***************************************************************************)
(* One buffer of the memory manager (core/GRIBuffer): a list of packets,   *)
(* the flag its writer raises while a packet is being written, one read    *)
(* marker per thread, and the list of null packets.  The operators below   *)
(* are the methods of the class; a method that the callers run without a   *)
(* lock is split by the modules that use it, not here.                     *)
(*                                                                         *)
(* The bytes of a packet are abstracted to the number of the write call    *)
(* that produced them and to how many of them are in the list: what        *)
(* readers can tell apart is whose bytes they are and how many.  Packets   *)
(* are numbered from 0 in the code and from 1 in the sequence.             *)
(***************************************************************************)
EXTENDS Integers, Sequences

CONSTANT Threads        \* the process threads, each with a marker of its own

Packet == [call : Nat \ {0}, bytes : Nat]

Buffer == [busy    : BOOLEAN,
           packets : Seq(Packet),
           marker  : [Threads -> Nat],
           nulls   : SUBSET Nat]

\* The constructor.  A thread absent from thread_list_ has marker 0.
EmptyBuffer == [busy    |-> FALSE,
                packets |-> <<>>,
                marker  |-> [t \in Threads |-> 0],
                nulls   |-> {}]

-----------------------------------------------------------------------------
(* size_ is the length of packet_list_; NextPacket() returns it.           *)

NextPacket(buf) == Len(buf.packets)

\* BufferSize() from the two fields it loads: Return only completed packets.
BufferSizeFrom(busy, size) == IF busy THEN size - 1 ELSE size

BufferSize(buf) == BufferSizeFrom(buf.busy, NextPacket(buf))

IsNullPacket(buf, p) == p \in buf.nulls

\* A number is only ever added to a list that is not empty.
AddNullPacket(buf, p) ==
  IF buf.nulls = {} THEN buf ELSE [buf EXCEPT !.nulls = @ \union {p}]

PacketSize(buf, p) ==
  IF IsNullPacket(buf, p) THEN 0 ELSE buf.packets[p + 1].bytes

-----------------------------------------------------------------------------
(* Writing one byte of packet p at position i.                             *)

CanWriteByte(buf, p, i) ==
  /\ p \in 0 .. NextPacket(buf)
  /\ i \in 0 .. (IF p = NextPacket(buf) THEN 0 ELSE buf.packets[p + 1].bytes)

WriteToBuffer(buf, p, i, call) ==
  IF p = NextPacket(buf)
  THEN [buf EXCEPT !.packets = Append(@, [call |-> call, bytes |-> 1])]
  ELSE IF i = buf.packets[p + 1].bytes
  THEN [buf EXCEPT !.packets[p + 1] = [call |-> @.call, bytes |-> i + 1]]
  ELSE buf

\* Mutant: clears one packet too many.
ClearPacketsOneTooMany(buf, from, below) ==
  [buf EXCEPT !.nulls   = @ \ (from .. below),
              !.packets = [i \in DOMAIN @ |->
                             IF i \in from + 1 .. below + 1
                             THEN [call |-> @[i].call, bytes |-> 0]
                             ELSE @[i]]]

\* ClearPacket() on the packets numbered from .. below - 1, one after the
\* other: drops the bytes of a packet, its place in the list stays.
ClearPackets(buf, from, below) ==
  [buf EXCEPT !.nulls   = @ \ (from .. below - 1),
              !.packets = [i \in DOMAIN @ |->
                             IF i \in from + 1 .. below
                             THEN [call |-> @[i].call, bytes |-> 0]
                             ELSE @[i]]]

-----------------------------------------------------------------------------
(* The marker of a thread: the packet it reads next.                       *)

CurrentPacket(buf, t) == buf.marker[t]

SetPacketMarker(buf, t, p) == [buf EXCEPT !.marker[t] = p]

\* Mutant: a thread that is not in the list yet is not added.
IncrementKnownMarker(buf, t) ==
  [buf EXCEPT !.marker[t] = IF @ = 0 THEN 0 ELSE @ + 1]

IncrementPacketMarker(buf, t) == [buf EXCEPT !.marker[t] = @ + 1]

\* ReadBuffer() for each byte of packet p: every byte read sets the marker.
ReadBytes(buf, t, p) ==
  IF PacketSize(buf, p) > 0 THEN SetPacketMarker(buf, t, p) ELSE buf
=============================================================================
