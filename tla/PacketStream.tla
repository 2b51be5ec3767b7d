---------------------------- MODULE PacketStream ----------------------------
(***************************************************************************)
(* What the memory manager promises to the threads it connects: a block is *)
(* an unbounded first-in first-out stream.  A packet that was posted is    *)
(* delivered to the reader of the block whole, once, and in the order of   *)
(* posting.  GRIRegulator implements this specification: see Stream there. *)
(***************************************************************************)
EXTENDS Sequences, Naturals

CONSTANTS Blocks,    \* the streams
          Packets    \* what can be posted

VARIABLES sent,      \* sent[b]: the packets posted to b so far
          delivered  \* delivered[b]: those its reader was given

StreamInit ==
  /\ sent = [b \in Blocks |-> <<>>]
  /\ delivered = [b \in Blocks |-> <<>>]

Post(b, p) ==
  /\ sent' = [sent EXCEPT ![b] = Append(@, p)]
  /\ UNCHANGED delivered

Deliver(b) ==
  /\ Len(delivered[b]) < Len(sent[b])
  /\ delivered' =
       [delivered EXCEPT ![b] = Append(@, sent[b][Len(delivered[b]) + 1])]
  /\ UNCHANGED sent

StreamNext ==
  \E b \in Blocks : Deliver(b) \/ \E p \in Packets : Post(b, p)

StreamSpec == StreamInit /\ [][StreamNext]_<<sent, delivered>>
=============================================================================
