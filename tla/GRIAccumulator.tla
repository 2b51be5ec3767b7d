---------------------------- MODULE GRIAccumulator ----------------------------
(***************************************************************************)
(* One accumulator of a DAQ thread (core/accum): a ring of NumBuff buffers *)
(* that sorts events into windows of AccumTime ticks and posts each window *)
(* as one packet.  The buffer of the oldest window is "on the bubble", the *)
(* one of the newest is the "leading edge".  An event beyond the leading   *)
(* edge makes the accumulator post the bubble and move its buffer to the   *)
(* front of the ring, as many times as it takes to hold the event; a flush *)
(* posts the whole ring.                                                   *)
(*                                                                         *)
(* Only its DAQ thread calls an accumulator, in the order of               *)
(* GRIDAQThread::run(): InitializeAccumulators in StartDataAcquisition,    *)
(* PostData in AcquireData, FlushAccumulators when the acquisition stops.  *)
(* PostData with the run flag down changes nothing here (see GRIDAQThread).*)
(* Each packet posted is a step: WriteMemory may block.  Buffers are       *)
(* numbered from 1; the payload of an event is its number.                 *)
(***************************************************************************)
EXTENDS Integers, Lists

CONSTANTS
  NumBuff,     \* the number of buffers
  AccumTime,   \* the length of a window, in ticks
  Origins,     \* the first timestamps of an acquisition
  Times,       \* the timestamps of events
  MaxBatch,    \* bound on the events of one PostData call
  MaxEvents    \* bound on the events of one acquisition

ASSUME AccumulatorAssumption ==
  /\ NumBuff \in Nat \ {0}
  /\ AccumTime \in Nat \ {0}
  /\ Origins \subseteq Int
  /\ Times \subseteq Int
  /\ MaxBatch \in Nat
  /\ MaxEvents \in Nat

Slots == 1 .. NumBuff

Event == [n : Nat, t : Times]

AccumBuff == [t1 : Int, t2 : Int, data : Seq(Event),
              bubble : BOOLEAN, leading : BOOLEAN]

VARIABLES
  phase,    \* "stopped", "running" or "flushing"
  buff,     \* the ring: buff_
  batch,    \* the events that the running Accumulate() was given
  left,     \* how many bubbles the running call has still to post
  posted,   \* the packets posted in this acquisition
  origin,   \* history: the first timestamp of this acquisition
  arrivals  \* history: the events that Accumulate() was given, with the
            \*   number of windows posted and the newest event of the call

vars == <<phase, buff, batch, left, posted, origin, arrivals>>

Arrival == [event : Event, closed : Nat, newest : Times]

TypeOK ==
  /\ phase \in {"stopped", "running", "flushing"}
  /\ buff \in [Slots -> AccumBuff]
  /\ batch \in Seq(Event)
  /\ left \in Nat
  /\ posted \in Seq(Seq(Event))
  /\ origin \in Origins
  /\ arrivals \in Seq(Arrival)

-----------------------------------------------------------------------------
(* GRIAccumBuff.                                                           *)

\* Mutant: the end of the window belongs to it.
BufferDataClosed(b, events) ==
  LET inside == {i \in DOMAIN events :
                   b.t1 <= events[i].t /\ events[i].t <= b.t2}
  IN  [b EXCEPT !.data = @ \o ElementsAt(events, inside)]

BufferData(b, events) ==
  LET inside == {i \in DOMAIN events :
                   b.t1 <= events[i].t /\ events[i].t < b.t2}
  IN  [b EXCEPT !.data = @ \o ElementsAt(events, inside)]

\* What BufferData() returns: by how much the newest event passes the end of
\* the leading edge.
Overshoot(b, events) ==
  IF b.leading
  THEN Max({0} \union {events[i].t - b.t2 : i \in DOMAIN events})
  ELSE 0

ResetBuffer(b, t1, t2) == [b EXCEPT !.t1 = t1, !.t2 = t2, !.data = <<>>]

-----------------------------------------------------------------------------
(* GRIDAQAccumulator.                                                      *)

ResetAccumBuffs(ts0) ==
  [i \in Slots |-> [t1      |-> ts0 + (i - 1) * AccumTime,
                    t2      |-> ts0 + (i - 1) * AccumTime + AccumTime,
                    data    |-> <<>>,
                    bubble  |-> i = 1,
                    leading |-> i = NumBuff]]

\* Mutant: one window too many.
BubbleWriteNumTooMany(bs, events) ==
  LET beyond == {i \in Slots : Overshoot(bs[i], events) > 0} IN
  IF beyond = {} THEN 0
  ELSE (Overshoot(bs[Max(beyond)], events) \div AccumTime) + 2

\* How many bubbles to post: from the last buffer, in the order of the list,
\* that reports an overshoot.
BubbleWriteNum(bs, events) ==
  LET beyond == {i \in Slots : Overshoot(bs[i], events) > 0} IN
  IF beyond = {} THEN 0
  ELSE (Overshoot(bs[Max(beyond)], events) \div AccumTime) + 1

Bubble == Min({i \in Slots : buff[i].bubble})

NextSlot(i) == IF i = NumBuff THEN 1 ELSE i + 1

\* Mutant: the buffer that was posted moves by one window.
AdvanceByOne(i, events) ==
  [j \in Slots |->
     IF j = i
     THEN BufferData([ResetBuffer(buff[i], buff[i].t1 + AccumTime,
                                           buff[i].t2 + AccumTime)
                        EXCEPT !.bubble = (NextSlot(i) = i),
                               !.leading = TRUE], events)
     ELSE [buff[j] EXCEPT !.bubble = @ \/ j = NextSlot(i), !.leading = FALSE]]

\* The pass over the list after buffer i was posted: i becomes the leading
\* edge and takes those events that are in its new window, the buffer after
\* it goes on the bubble.
Advance(i, events) ==
  [j \in Slots |->
     IF j = i
     THEN BufferData([ResetBuffer(buff[i], buff[i].t1 + AccumTime * NumBuff,
                                           buff[i].t2 + AccumTime * NumBuff)
                        EXCEPT !.bubble = (NextSlot(i) = i),
                               !.leading = TRUE], events)
     ELSE [buff[j] EXCEPT !.bubble = @ \/ j = NextSlot(i), !.leading = FALSE]]

-----------------------------------------------------------------------------

\* The first InitializeAccumulators() has been called: what the constructor
\* leaves in the ring is not used before.
Init ==
  /\ phase = "running"
  /\ origin \in Origins
  /\ buff = ResetAccumBuffs(origin)
  /\ batch = <<>>
  /\ left = 0
  /\ posted = <<>>
  /\ arrivals = <<>>

\* InitializeAccumulators(): the events still in the ring are dropped.
InitializeTime(ts0) ==
  /\ phase = "stopped"
  /\ phase' = "running"
  /\ buff' = ResetAccumBuffs(ts0)
  /\ origin' = ts0
  /\ posted' = <<>>
  /\ arrivals' = <<>>
  /\ UNCHANGED <<batch, left>>

\* The events of a PostData call with these timestamps, in any order.
Batch(times) ==
  [i \in DOMAIN times |-> [n |-> Len(arrivals) + i, t |-> times[i]]]

Newest(events) == Max({events[i].t : i \in DOMAIN events})

\* The first loop of Accumulate(): every buffer takes the events of its
\* window, and the leading edge tells whether to post.
Accumulate(events) ==
  LET taken == [i \in Slots |-> BufferData(buff[i], events)] IN
  /\ phase = "running"
  /\ left = 0
  /\ buff' = taken
  /\ left' = BubbleWriteNum(buff, events)
  /\ batch' = IF left' = 0 THEN <<>> ELSE events
  /\ arrivals' = arrivals \o
       [i \in DOMAIN events |-> [event  |-> events[i],
                                 closed |-> Len(posted),
                                 newest |-> Newest(events)]]
  /\ UNCHANGED <<phase, posted, origin>>

\* One pass of the second loop of Accumulate(), or of FlushBuffers(), which
\* has no events to take.  There is one bubble at every pass: see RingTiled.
WriteBubble ==
  /\ left > 0
  /\ posted' = Append(posted, buff[Bubble].data)
  /\ buff' = Advance(Bubble, batch)
  /\ left' = left - 1
  /\ batch' = IF left = 1 THEN <<>> ELSE batch
  /\ phase' = IF left = 1 /\ phase = "flushing" THEN "stopped" ELSE phase
  /\ UNCHANGED <<origin, arrivals>>

\* Mutant: the leading edge is not flushed.
FlushBuffersButOne ==
  /\ phase = "running"
  /\ left = 0
  /\ phase' = "flushing"
  /\ left' = NumBuff - 1
  /\ UNCHANGED <<buff, batch, posted, origin, arrivals>>

FlushBuffers ==
  /\ phase = "running"
  /\ left = 0
  /\ phase' = "flushing"
  /\ left' = NumBuff
  /\ UNCHANGED <<buff, batch, posted, origin, arrivals>>

Next ==
  \/ \E ts0 \in Origins : InitializeTime(ts0)
  \/ \E k \in 1 .. MaxBatch :
       /\ Len(arrivals) + k <= MaxEvents
       /\ \E times \in [1 .. k -> Times] : Accumulate(Batch(times))
  \/ WriteBubble
  \/ FlushBuffers

Spec == Init /\ [][Next]_vars

-----------------------------------------------------------------------------
(* What the accumulator guarantees.                                        *)

\* The position of buffer i in the ring, counted from the bubble.
Place(i) == IF i >= Bubble THEN i - Bubble ELSE i - Bubble + NumBuff

\* The windows of the ring follow each other without gap or overlap from the
\* first window that was not posted; one buffer is on the bubble, one is the
\* leading edge, and they are the two ends (GRIDAQAccumulator.h:108-166).
RingTiled ==
  /\ \A i, j \in Slots : buff[i].bubble /\ buff[j].bubble => i = j
  /\ \E i \in Slots : buff[i].bubble
  /\ \A i \in Slots :
       /\ buff[i].t1 = origin + (Len(posted) + Place(i)) * AccumTime
       /\ buff[i].t2 = buff[i].t1 + AccumTime
       /\ buff[i].leading <=> Place(i) = NumBuff - 1

WindowStart(w) == origin + w * AccumTime

\* The window that time t falls in is the w-th, counted from 0.
InWindow(t, w) == WindowStart(w) <= t /\ t < WindowStart(w + 1)

\* An event is late when its window was posted before it arrived.
Late(a) == a.event.t < WindowStart(a.closed)

\* An event on the end of the ring does not make the accumulator post, though
\* no buffer holds it, unless the call has an event that is newer.
OnTheEdge(a) ==
  /\ a.event.t = WindowStart(a.closed + NumBuff)
  /\ a.newest = a.event.t

\* The events that belong in the packet of window w, as they arrived.
Accepted(w) ==
  ElementsAt([j \in DOMAIN arrivals |-> arrivals[j].event],
             {j \in DOMAIN arrivals : /\ InWindow(arrivals[j].event.t, w)
                                      /\ ~ Late(arrivals[j])
                                      /\ ~ OnTheEdge(arrivals[j])})

\* Packet by packet, what was posted is what arrived in time for its window,
\* each event once and in order of arrival; what the ring holds between two
\* calls is the same of the windows not posted yet.
PacketsAreWindows ==
  /\ \A w \in 0 .. Len(posted) - 1 : posted[w + 1] = Accepted(w)
  /\ left = 0 =>
       \A i \in Slots : buff[i].data = Accepted(Len(posted) + Place(i))

\* The ring tolerates disorder: an event is dropped as late only when an
\* event NumBuff windows newer has already arrived.
OnlyStaleAreLate ==
  \A j \in DOMAIN arrivals :
    Late(arrivals[j]) /\ arrivals[j].event.t >= origin =>
      \E i \in 1 .. j - 1, w \in 0 .. arrivals[j].closed - 1 :
        /\ InWindow(arrivals[j].event.t, w)
        /\ arrivals[i].event.t >= WindowStart(w + NumBuff)

\* When an acquisition has stopped, nothing accepted is left in the ring:
\* InitializeTime() drops nothing.
FlushPostsAll ==
  phase = "stopped" =>
    /\ \A i \in Slots : buff[i].data = <<>>
    /\ \A j \in DOMAIN arrivals :
         arrivals[j].event.t < WindowStart(Len(posted)) \/ OnTheEdge(arrivals[j])

-----------------------------------------------------------------------------
(* What the documentation says and the code does not do: see the findings. *)

\* Timestamps beyond every window trigger a write: none is dropped on the
\* edge of the ring.
NoneDroppedOnTheEdge ==
  \A j \in DOMAIN arrivals : ~ OnTheEdge(arrivals[j])
=============================================================================
