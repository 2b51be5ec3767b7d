------------------------- MODULE GRIAccumulatorProofs -------------------------
(***************************************************************************)
(* Proofs about an accumulator, for every number of buffers, length of     *)
(* window and sequence of calls: its windows tile the time axis, and what  *)
(* it posts and holds are the events of the windows.                       *)
(*                                                                         *)
(* RingTiled finds the bubble with Min; the first inductive invariant,     *)
(* RingInv, names it instead, and adds what the proof needs of the types.  *)
(* The contents of the buffers play no part in it.  The second, ContentInv,*)
(* is about the contents: what belongs beyond the ring is still in the     *)
(* hands of the running call, which will post enough windows to reach it.  *)
(***************************************************************************)
EXTENDS GRIAccumulator

PlaceFrom(p, i) == IF i >= p THEN i - p ELSE i - p + NumBuff

\* The ring bs when buffer p is on the bubble, k windows have been posted and
\* the acquisition started at o.
Tiled(bs, p, k, o) ==
  \A i \in Slots :
    /\ bs[i].bubble = (i = p)
    /\ bs[i].t1 = o + (k + PlaceFrom(p, i)) * AccumTime
    /\ bs[i].t2 = bs[i].t1 + AccumTime
    /\ bs[i].leading = (PlaceFrom(p, i) = NumBuff - 1)

Fields == {"t1", "t2", "data", "bubble", "leading"}

\* The buffers of the ring are records with the right fields.
Records(bs) ==
  /\ bs = [i \in Slots |-> bs[i]]
  /\ \A i \in Slots : bs[i] = [f \in Fields |-> bs[i][f]]

RingInv ==
  /\ origin \in Int
  /\ \E S : posted \in Seq(S)
  /\ Records(buff)
  /\ \E p \in Slots : Tiled(buff, p, Len(posted), origin)

\* The buffer that RingInv names is the one that the code finds.
LEMMA BubbleIsThere ==
  ASSUME NEW p \in Slots, NEW k, NEW o, Tiled(buff, p, k, o)
  PROVE  Bubble = p
<1>1. {i \in Slots : buff[i].bubble} = {p}
  BY DEF Tiled
<1>2. Min({p}) = p
  BY DEF Min, Slots
<1> QED BY <1>1, <1>2 DEF Bubble

LEMMA InvImpliesTiled == RingInv => RingTiled
<1> SUFFICES ASSUME RingInv PROVE RingTiled
  OBVIOUS
<1>1. PICK p \in Slots : Tiled(buff, p, Len(posted), origin)
  BY DEF RingInv
<1>2. Bubble = p
  BY <1>1, BubbleIsThere
<1>3. \A i \in Slots : Place(i) = PlaceFrom(p, i)
  BY <1>2 DEF Place, PlaceFrom
<1> QED BY <1>1, <1>3 DEF Tiled, RingTiled

\* InitializeAccumulators() tiles the ring anew.
LEMMA ResetTiles ==
  ASSUME NEW o \in Int
  PROVE  /\ Records(ResetAccumBuffs(o))
         /\ Tiled(ResetAccumBuffs(o), 1, 0, o)
         /\ 1 \in Slots
<1> DEFINE bs == ResetAccumBuffs(o)
<1>1. 1 \in Slots /\ \A i \in Slots : PlaceFrom(1, i) = i - 1
  BY AccumulatorAssumption DEF Slots, PlaceFrom
<1>2. Records(bs)
  BY DEF Records, ResetAccumBuffs, Fields
<1>3. Tiled(bs, 1, 0, o)
  <2> SUFFICES ASSUME NEW i \in Slots
               PROVE  /\ bs[i].bubble = (i = 1)
                      /\ bs[i].t1 = o + (0 + PlaceFrom(1, i)) * AccumTime
                      /\ bs[i].t2 = bs[i].t1 + AccumTime
                      /\ bs[i].leading = (PlaceFrom(1, i) = NumBuff - 1)
    BY DEF Tiled
  <2>1. bs[i] = [t1      |-> o + (i - 1) * AccumTime,
                 t2      |-> o + (i - 1) * AccumTime + AccumTime,
                 data    |-> <<>>,
                 bubble  |-> i = 1,
                 leading |-> i = NumBuff]
    BY DEF ResetAccumBuffs
  <2>2. PlaceFrom(1, i) = i - 1 /\ i \in Int /\ 0 + (i - 1) = i - 1
    BY <1>1 DEF Slots
  <2>3. (i = NumBuff) = (i - 1 = NumBuff - 1)
    BY <2>2, AccumulatorAssumption
  <2> QED BY <2>1, <2>2, <2>3
<1> QED BY <1>1, <1>2, <1>3

\* Taking events changes nothing but the contents of a buffer.
LEMMA BufferDataFrame ==
  ASSUME NEW b, NEW events, b = [f \in Fields |-> b[f]]
  PROVE  LET c == BufferData(b, events) IN
         /\ c = [f \in Fields |-> c[f]]
         /\ c.t1 = b.t1 /\ c.t2 = b.t2
         /\ c.bubble = b.bubble /\ c.leading = b.leading
BY DEF BufferData, Fields

LEMMA InitRing == Init => RingInv
<1> SUFFICES ASSUME Init PROVE RingInv
  OBVIOUS
<1>1. origin \in Int
  BY AccumulatorAssumption DEF Init
<1>2. posted = <<>> /\ Len(posted) = 0 /\ posted \in Seq({})
  BY DEF Init
<1>3. buff = ResetAccumBuffs(origin)
  BY DEF Init
<1> QED BY <1>1, <1>2, <1>3, ResetTiles DEF RingInv

LEMMA InitializeTimeStep ==
  ASSUME NEW ts0 \in Origins, InitializeTime(ts0)
  PROVE  RingInv'
<1>1. origin' = ts0 /\ ts0 \in Int
  BY AccumulatorAssumption DEF InitializeTime
<1>2. Len(posted') = 0 /\ posted' \in Seq({})
  BY DEF InitializeTime
<1>3. buff' = ResetAccumBuffs(ts0)
  BY DEF InitializeTime
<1> QED BY <1>1, <1>2, <1>3, ResetTiles DEF RingInv, Records, Tiled

LEMMA AccumulateStep ==
  ASSUME RingInv, NEW events, Accumulate(events)
  PROVE  RingInv'
<1>1. PICK p \in Slots : Tiled(buff, p, Len(posted), origin)
  BY DEF RingInv
<1>2. buff' = [i \in Slots |-> BufferData(buff[i], events)]
  BY DEF Accumulate
<1>3. UNCHANGED <<posted, origin>>
  BY DEF Accumulate
<1>4. ASSUME NEW i \in Slots
      PROVE  /\ buff'[i] = [f \in Fields |-> buff'[i][f]]
             /\ buff'[i].t1 = buff[i].t1 /\ buff'[i].t2 = buff[i].t2
             /\ buff'[i].bubble = buff[i].bubble
             /\ buff'[i].leading = buff[i].leading
  <2>1. buff'[i] = BufferData(buff[i], events)
    BY <1>2
  <2>2. buff[i] = [f \in Fields |-> buff[i][f]]
    BY DEF RingInv, Records
  <2> QED BY <2>1, <2>2, BufferDataFrame
<1>5. Records(buff)'
  BY <1>2, <1>4 DEF Records
<1>6. Tiled(buff, p, Len(posted), origin)'
  <2>1. ASSUME NEW i \in Slots
        PROVE  /\ buff'[i].bubble = (i = p)
               /\ buff'[i].t1 = origin + (Len(posted) + PlaceFrom(p, i)) * AccumTime
               /\ buff'[i].t2 = buff'[i].t1 + AccumTime
               /\ buff'[i].leading = (PlaceFrom(p, i) = NumBuff - 1)
    BY <1>1, <1>4, <2>1 DEF Tiled
  <2> QED BY <1>3, <2>1 DEF Tiled, PlaceFrom
<1> QED BY <1>3, <1>5, <1>6 DEF RingInv

\* The places of the buffers when the bubble moves on.
LEMMA PlacesMove ==
  ASSUME NEW p \in Slots
  PROVE  /\ NextSlot(p) \in Slots
         /\ PlaceFrom(p, p) = 0
         /\ PlaceFrom(NextSlot(p), p) = NumBuff - 1
         /\ \A i \in Slots : i # p =>
              /\ PlaceFrom(NextSlot(p), i) = PlaceFrom(p, i) - 1
              /\ PlaceFrom(p, i) \in 1 .. NumBuff - 1
              /\ PlaceFrom(NextSlot(p), i) # NumBuff - 1
BY AccumulatorAssumption DEF Slots, NextSlot, PlaceFrom

LEMMA WriteBubbleStep ==
  ASSUME RingInv, WriteBubble
  PROVE  RingInv'
<1>1. PICK p \in Slots : Tiled(buff, p, Len(posted), origin)
  BY DEF RingInv
<1>2. Bubble = p
  BY <1>1, BubbleIsThere
<1>3. PICK S : posted \in Seq(S)
  BY DEF RingInv
<1>4. /\ Len(posted') = Len(posted) + 1
      /\ posted' \in Seq(S \union {buff[p].data})
  <2>1. posted \in Seq(S \union {buff[p].data})
    BY <1>3
  <2> QED BY <1>2, <2>1 DEF WriteBubble
<1>5. origin' = origin /\ buff' = Advance(p, batch)
  BY <1>2 DEF WriteBubble
<1>6. /\ AccumTime \in Int /\ NumBuff \in Int /\ origin \in Int
      /\ Len(posted) \in Int
  BY <1>3, AccumulatorAssumption DEF RingInv
<1> DEFINE q == NextSlot(p)
<1>7. ASSUME NEW i \in Slots, i # p
      PROVE  /\ buff'[i] = [f \in Fields |-> buff'[i][f]]
             /\ buff'[i].bubble = (i = q)
             /\ buff'[i].t1 = origin + (Len(posted) + 1 + PlaceFrom(q, i))
                                         * AccumTime
             /\ buff'[i].t2 = buff'[i].t1 + AccumTime
             /\ buff'[i].leading = (PlaceFrom(q, i) = NumBuff - 1)
  <2>1. buff'[i] = [buff[i] EXCEPT !.bubble = @ \/ i = q, !.leading = FALSE]
    BY <1>5, <1>7 DEF Advance
  <2>2. buff[i] = [f \in Fields |-> buff[i][f]]
    BY DEF RingInv, Records
  <2>3. /\ buff'[i] = [f \in Fields |-> buff'[i][f]]
        /\ buff'[i].bubble = (buff[i].bubble \/ i = q)
        /\ buff'[i].leading = FALSE
        /\ buff'[i].t1 = buff[i].t1 /\ buff'[i].t2 = buff[i].t2
    BY <2>1, <2>2 DEF Fields
  <2>4. Len(posted) + PlaceFrom(p, i) = Len(posted) + 1 + PlaceFrom(q, i)
    BY <1>6, <1>7, PlacesMove
  <2>5. /\ buff[i].bubble = FALSE
        /\ buff[i].t1 = origin + (Len(posted) + PlaceFrom(p, i)) * AccumTime
        /\ buff[i].t2 = buff[i].t1 + AccumTime
    BY <1>1, <1>7 DEF Tiled
  <2>6. PlaceFrom(q, i) # NumBuff - 1
    BY <1>7, PlacesMove
  <2> QED BY <2>3, <2>4, <2>5, <2>6
<1>8. /\ buff'[p] = [f \in Fields |-> buff'[p][f]]
      /\ buff'[p].bubble = (p = q)
      /\ buff'[p].t1 = origin + (Len(posted) + 1 + PlaceFrom(q, p))
                                  * AccumTime
      /\ buff'[p].t2 = buff'[p].t1 + AccumTime
      /\ buff'[p].leading = (PlaceFrom(q, p) = NumBuff - 1)
  <2> DEFINE b == [ResetBuffer(buff[p], buff[p].t1 + AccumTime * NumBuff,
                                        buff[p].t2 + AccumTime * NumBuff)
                     EXCEPT !.bubble = (q = p), !.leading = TRUE]
  <2>1. buff'[p] = BufferData(b, batch)
    BY <1>5 DEF Advance
  <2>2. buff[p] = [f \in Fields |-> buff[p][f]]
    BY DEF RingInv, Records
  <2>3. /\ b = [f \in Fields |-> b[f]]
        /\ b.t1 = buff[p].t1 + AccumTime * NumBuff
        /\ b.t2 = buff[p].t2 + AccumTime * NumBuff
        /\ b.bubble = (q = p)
        /\ b.leading = TRUE
    BY <2>2 DEF ResetBuffer, Fields
  <2> HIDE DEF b
  <2>4. /\ buff'[p] = [f \in Fields |-> buff'[p][f]]
        /\ buff'[p].t1 = b.t1 /\ buff'[p].t2 = b.t2
        /\ buff'[p].bubble = b.bubble /\ buff'[p].leading = b.leading
    BY <2>1, <2>3, BufferDataFrame
  <2>5. PlaceFrom(p, p) = 0 /\ PlaceFrom(q, p) = NumBuff - 1
    BY PlacesMove
  <2>6. /\ buff[p].t1 = origin + Len(posted) * AccumTime
        /\ buff[p].t2 = buff[p].t1 + AccumTime
    BY <1>1, <1>6, <2>5 DEF Tiled
  <2>7. Len(posted) * AccumTime + AccumTime * NumBuff
          = (Len(posted) + 1 + (NumBuff - 1)) * AccumTime
    BY <1>6
  <2>8. buff'[p].t1 = origin + (Len(posted) + 1 + (NumBuff - 1)) * AccumTime
    <3>1. buff'[p].t1 = origin + Len(posted) * AccumTime + AccumTime * NumBuff
      BY <2>3, <2>4, <2>6
    <3> DEFINE x == Len(posted) * AccumTime
               y == AccumTime * NumBuff
    <3>2. x \in Int /\ y \in Int
      BY <1>6
    <3>3. origin + x + y = origin + (x + y)
      BY <1>6, <3>2
    <3> QED BY <2>7, <3>1, <3>3
  <2>9. buff'[p].t2 = buff'[p].t1 + AccumTime
    <3> DEFINE u == buff[p].t1
               y == AccumTime * NumBuff
               x == Len(posted) * AccumTime
    <3>1. y \in Int /\ x \in Int
      BY <1>6
    <3>2. u \in Int
      BY <1>6, <2>6, <3>1
    <3>3. (u + AccumTime) + y = (u + y) + AccumTime
      BY <1>6, <3>1, <3>2
    <3> QED BY <2>3, <2>4, <2>6, <3>3
  <2>10. buff'[p].leading = TRUE /\ buff'[p].bubble = (q = p)
    BY <2>3, <2>4
  <2> QED BY <2>4, <2>5, <2>8, <2>9, <2>10
<1>9. Records(buff)'
  <2>1. buff' = [i \in Slots |-> buff'[i]]
    BY <1>5 DEF Advance
  <2> QED BY <2>1, <1>7, <1>8 DEF Records
<1>10. Tiled(buff', q, Len(posted'), origin')
  <2>1. PICK bs, k, o : bs = buff' /\ k = Len(posted) + 1 /\ o = origin
    OBVIOUS
  <2>2. ASSUME NEW i \in Slots
        PROVE  /\ bs[i].bubble = (i = q)
               /\ bs[i].t1 = o + (k + PlaceFrom(q, i)) * AccumTime
               /\ bs[i].t2 = bs[i].t1 + AccumTime
               /\ bs[i].leading = (PlaceFrom(q, i) = NumBuff - 1)
    <3>1. CASE i = p
      BY <1>8, <2>1, <3>1
    <3>2. CASE i # p
      BY <1>7, <2>1, <3>2
    <3> QED BY <3>1, <3>2
  <2>3. Tiled(bs, q, k, o)
    BY <2>2 DEF Tiled
  <2> QED BY <1>4, <1>5, <2>1, <2>3
<1>11. q \in Slots
  BY PlacesMove
<1> QED BY <1>4, <1>5, <1>6, <1>9, <1>10, <1>11 DEF RingInv, Records, Tiled

LEMMA NextRing == RingInv /\ [Next]_vars => RingInv'
<1> SUFFICES ASSUME RingInv, [Next]_vars PROVE RingInv'
  OBVIOUS
<1>1. CASE \E ts0 \in Origins : InitializeTime(ts0)
  BY <1>1, InitializeTimeStep
<1>2. CASE \E k \in 1 .. MaxBatch :
             /\ Len(arrivals) + k <= MaxEvents
             /\ \E times \in [1 .. k -> Times] : Accumulate(Batch(times))
  BY <1>2, AccumulateStep
<1>3. CASE WriteBubble
  BY <1>3, WriteBubbleStep
<1>4. CASE FlushBuffers
  BY <1>4 DEF FlushBuffers, RingInv, Records, Tiled
<1>5. CASE UNCHANGED vars
  BY <1>5 DEF vars, RingInv, Records, Tiled
<1> QED BY <1>1, <1>2, <1>3, <1>4, <1>5 DEF Next

\* Whatever timestamps arrive, in whatever batches and order, and whenever
\* the ring is flushed or started again, its windows follow each other from
\* the first one not posted, the bubble and the leading edge at its ends
\* (GRIDAQAccumulator.h:82-224).
THEOREM WindowsTile == Spec => []RingTiled
<1>1. RingInv /\ [Next]_vars => RingInv'
  BY NextRing
<1>2. Spec => []RingInv
  BY InitRing, <1>1, PTL DEF Spec
<1> QED BY <1>2, InvImpliesTiled, PTL

-----------------------------------------------------------------------------
(* Arithmetic.                                                             *)

LEMMA TimesMonotone ==
  ASSUME NEW a \in Int, NEW b \in Int, NEW c \in Nat, a <= b
  PROVE  a * c <= b * c
  OBVIOUS

LEMMA DivBounds ==
  ASSUME NEW x \in Nat, NEW d \in Nat \ {0}
  PROVE  /\ x \div d \in Nat
         /\ (x \div d) * d <= x
         /\ x < ((x \div d) + 1) * d
  OBVIOUS

LEMMA MaxOfInts ==
  ASSUME NEW n \in Nat \ {0}, NEW f \in [1 .. n -> Int]
  PROVE  \E m \in 1 .. n : \A i \in 1 .. n : f[i] <= f[m]
<1> DEFINE T == {k \in 0 .. n :
                   k = 0 \/ \E m \in 1 .. k : \A i \in 1 .. k : f[i] <= f[m]}
<1>1. 0 \in T
  OBVIOUS
<1>2. ASSUME NEW k \in 0 .. n, k < n, k \in T
      PROVE  k + 1 \in T
  <2>1. k + 1 \in 0 .. n /\ \A i \in 1 .. k + 1 : f[i] \in Int
    BY <1>2
  <2>2. CASE k = 0
    <3>1. \A i \in 1 .. k + 1 : f[i] <= f[1]
      BY <2>1, <2>2
    <3> QED
      BY <2>1, <2>2, <3>1
  <2>3. CASE k # 0
    <3>1. PICK m \in 1 .. k : \A i \in 1 .. k : f[i] <= f[m]
      BY <1>2, <2>3
    <3>2. CASE f[k + 1] <= f[m]
      <4>1. \A i \in 1 .. k + 1 : f[i] <= f[m]
        BY <2>1, <3>1, <3>2
      <4> QED
        BY <2>1, <4>1
    <3>3. CASE ~ (f[k + 1] <= f[m])
      <4>1. \A i \in 1 .. k + 1 : f[i] <= f[k + 1]
        BY <2>1, <3>1, <3>3
      <4> QED
        BY <2>1, <4>1
    <3> QED
      BY <3>2, <3>3
  <2> QED
    BY <2>2, <2>3
<1>3. 0 .. n \subseteq T
  <2> HIDE DEF T
  <2> QED
    BY <1>1, <1>2, BoundedInduction
<1>4. n \in 0 .. n /\ n # 0
  OBVIOUS
<1>5. n \in T
  <2> HIDE DEF T
  <2> QED
    BY <1>3, <1>4
<1> QED
  BY <1>4, <1>5

-----------------------------------------------------------------------------
(* The contents.                                                           *)

TypeInv ==
  /\ phase \in {"stopped", "running", "flushing"}
  /\ \A i \in Slots : buff[i].data \in Seq(Event)
  /\ batch \in Seq(Event)
  /\ left \in Nat
  /\ posted \in Seq(Seq(Event))
  /\ origin \in Origins
  /\ arrivals \in Seq(Arrival)

\* Events are given only to a call that runs, and a stop leaves none to post.
CallInv ==
  /\ left = 0 => batch = <<>> /\ phase # "flushing"
  /\ phase # "running" => batch = <<>>
  /\ phase = "stopped" => left = 0

\* WindowStart, InWindow, OnTheEdge and Accepted of an acquisition that began
\* at o, written so that a step can be compared with the state before it.
Start(o, w) == o + w * AccumTime

InsideOf(o, events, w) ==
  {i \in DOMAIN events : Start(o, w) <= events[i].t
                           /\ events[i].t < Start(o, w + 1)}

OnEdge(o, a) == /\ a.event.t = Start(o, a.closed + NumBuff)
                /\ a.newest = a.event.t

EventsOf(arr) == [j \in DOMAIN arr |-> arr[j].event]

PlacesOf(o, arr, w) ==
  {j \in DOMAIN arr : /\ Start(o, w) <= arr[j].event.t
                      /\ arr[j].event.t < Start(o, w + 1)
                      /\ ~ (arr[j].event.t < Start(o, arr[j].closed))
                      /\ ~ OnEdge(o, arr[j])}

AcceptedOf(o, arr, w) == ElementsAt(EventsOf(arr), PlacesOf(o, arr, w))

\* The packets have what belongs in their windows, so have the buffers, and
\* what belongs beyond the ring the running call has still in its hands.
PacketsInv ==
  /\ \A w \in 0 .. Len(posted) - 1 :
       posted[w + 1] = AcceptedOf(origin, arrivals, w)
  /\ \A i \in Slots :
       buff[i].data = AcceptedOf(origin, arrivals,
                                 Len(posted) + PlaceFrom(Bubble, i))
  /\ \A w \in Nat : w >= Len(posted) + NumBuff =>
       AcceptedOf(origin, arrivals, w)
         = ElementsAt(batch, InsideOf(origin, batch, w))

\* The window that the ring will reach when the call is over.
Reach == IF phase = "running" THEN Len(posted) + NumBuff + left
         ELSE Len(posted) + left

\* Nothing lies beyond it, but for the events on the edge.
ReachInv ==
  /\ \A i \in 1 .. Len(batch) : batch[i].t < Start(origin, Reach)
  /\ \A j \in 1 .. Len(arrivals) :
       \/ arrivals[j].event.t < Start(origin, Reach)
       \/ OnEdge(origin, arrivals[j])

\* A window is closed because an event NumBuff windows newer has arrived.
StaleInv ==
  /\ phase = "running" /\ Len(posted) + left > 0 =>
       \E j \in 1 .. Len(arrivals) :
         arrivals[j].event.t
           >= Start(origin, Len(posted) + left - 1 + NumBuff)
  /\ \A j \in 1 .. Len(arrivals) :
       arrivals[j].closed > 0 =>
         \E i \in 1 .. j - 1 :
           arrivals[i].event.t
             >= Start(origin, arrivals[j].closed - 1 + NumBuff)

ContentInv == TypeInv /\ CallInv /\ PacketsInv /\ ReachInv /\ StaleInv

-----------------------------------------------------------------------------
(* Windows and the newest event.                                           *)

LEMMA ParametersAre ==
  ASSUME TypeInv
  PROVE  /\ NumBuff \in Nat \ {0} /\ AccumTime \in Nat \ {0}
         /\ origin \in Int /\ Len(posted) \in Nat
         /\ Times \subseteq Int
  BY AccumulatorAssumption DEF TypeInv

LEMMA WindowsInOrder ==
  ASSUME NEW o \in Int, NEW a \in Int, NEW b \in Int, a <= b
  PROVE  /\ Start(o, a) \in Int /\ Start(o, b) \in Int
         /\ Start(o, a) <= Start(o, b)
<1>1. AccumTime \in Nat
  BY AccumulatorAssumption
<1>2. a * AccumTime <= b * AccumTime
  BY <1>1, TimesMonotone
<1>3. a * AccumTime \in Int /\ b * AccumTime \in Int
  BY <1>1
<1> DEFINE x == a * AccumTime
           y == b * AccumTime
<1> HIDE DEF x, y
<1>4. o + x <= o + y /\ o + x \in Int /\ o + y \in Int
  BY <1>1, <1>2, <1>3 DEF x, y
<1> QED
  BY <1>4 DEF Start, x, y

LEMMA Starts ==
  /\ \A o \in Int, a \in Int : Start(o, a) \in Int
  /\ \A o \in Int, a \in Int, b \in Int :
       a <= b => Start(o, a) <= Start(o, b)
<1>1. ASSUME NEW o \in Int, NEW a \in Int
      PROVE  Start(o, a) \in Int
  <2>1. a <= a
    OBVIOUS
  <2> QED
    BY <2>1, WindowsInOrder
<1>2. ASSUME NEW o \in Int, NEW a \in Int, NEW b \in Int, a <= b
      PROVE  Start(o, a) <= Start(o, b)
  BY <1>2, WindowsInOrder
<1> QED
  BY <1>1, <1>2

LEMMA WindowsLength ==
  ASSUME NEW o \in Int, NEW a \in Int, NEW n \in Int
  PROVE  /\ Start(o, a) \in Int
         /\ Start(o, a + n) = Start(o, a) + n * AccumTime
<1>1. AccumTime \in Int
  BY AccumulatorAssumption
<1>2. (a + n) * AccumTime = a * AccumTime + n * AccumTime
  BY <1>1
<1>3. a * AccumTime \in Int /\ n * AccumTime \in Int
  BY <1>1
<1> DEFINE x == a * AccumTime
           y == n * AccumTime
<1> HIDE DEF x, y
<1>4. o + (x + y) = (o + x) + y /\ o + x \in Int
  BY <1>1, <1>3 DEF x, y
<1> QED
  BY <1>2, <1>4 DEF Start, x, y

LEMMA StartsApart ==
  \A o \in Int, a \in Int, n \in Int :
    Start(o, a + n) = Start(o, a) + n * AccumTime
  BY WindowsLength

\* The events of a call, the newest among them.
LEMMA BatchIs ==
  ASSUME TypeInv, NEW n \in 1 .. MaxBatch, NEW times \in [1 .. n -> Times],
         NEW E, E = Batch(times)
  PROVE  /\ E \in Seq(Event) /\ Len(E) = n /\ Len(E) \in Nat \ {0}
         /\ Newest(E) \in Times
         /\ \E m \in 1 .. Len(E) : E[m].t = Newest(E)
         /\ \A i \in 1 .. Len(E) : E[i].t <= Newest(E)
<1>1. Len(arrivals) \in Nat /\ n \in Nat \ {0}
  BY AccumulatorAssumption DEF TypeInv
<1>2. E = [i \in 1 .. n |-> [n |-> Len(arrivals) + i, t |-> times[i]]]
  BY DEF Batch
<1>3. \A i \in 1 .. n : [n |-> Len(arrivals) + i, t |-> times[i]] \in Event
  BY <1>1 DEF Event
<1>4. E \in Seq(Event) /\ Len(E) = n /\ DOMAIN E = 1 .. n
  BY <1>1, <1>2, <1>3
<1>5. \A i \in 1 .. n : E[i].t = times[i] /\ times[i] \in Int
  <2>1. \A i \in 1 .. n : times[i] \in Int
    BY AccumulatorAssumption
  <2>2. \A i \in 1 .. n : E[i].t = times[i]
    BY <1>2
  <2> QED
    BY <2>1, <2>2
<1>6. PICK m \in 1 .. n : \A i \in 1 .. n : times[i] <= times[m]
  <2>1. times \in [1 .. n -> Int]
    BY AccumulatorAssumption
  <2> QED
    BY <1>1, <2>1, MaxOfInts
<1>7. Newest(E) = times[m]
  <2> DEFINE S == {E[i].t : i \in DOMAIN E}
  <2>1. S \subseteq Int /\ times[m] \in S /\ \A y \in S : y <= times[m]
    BY <1>4, <1>5, <1>6
  <2>2. Max(S) = times[m]
    <3> HIDE DEF S
    <3> QED
      BY <2>1, MaxIs
  <2> QED
    BY <2>2 DEF Newest
<1> QED
  BY <1>1, <1>4, <1>5, <1>6, <1>7

\* The last place of the ring.
LEMMA LastPlace ==
  ASSUME NEW p \in Slots
  PROVE  \E q \in Slots : /\ PlaceFrom(p, q) = NumBuff - 1
                          /\ \A i \in Slots :
                               PlaceFrom(p, i) = NumBuff - 1 => i = q
<1>1. NumBuff \in Nat \ {0} /\ p \in 1 .. NumBuff
  BY AccumulatorAssumption DEF Slots
<1> DEFINE q == IF p = 1 THEN NumBuff ELSE p - 1
<1>2. q \in Slots
  BY <1>1 DEF Slots
<1>3. PlaceFrom(p, q) = NumBuff - 1
  BY <1>1 DEF PlaceFrom
<1>4. \A i \in Slots : PlaceFrom(p, i) = NumBuff - 1 => i = q
  BY <1>1 DEF PlaceFrom, Slots
<1> QED
  BY <1>2, <1>3, <1>4

\* A call posts as many bubbles as it takes for the ring to hold its newest
\* event, and none if that is not beyond the end of the ring.
LEMMA BubbleWriteNumIs ==
  ASSUME TypeInv, RingInv, NEW E \in Seq(Event), NEW m \in 1 .. Len(E),
         \A i \in 1 .. Len(E) : E[i].t <= E[m].t,
         NEW end, end = Start(origin, Len(posted) + NumBuff)
  PROVE  /\ end \in Int
         /\ BubbleWriteNum(buff, E) =
              IF E[m].t > end THEN ((E[m].t - end) \div AccumTime) + 1 ELSE 0
<1>1. PICK p \in Slots : Tiled(buff, p, Len(posted), origin)
  BY DEF RingInv
<1>2. PICK q \in Slots : /\ PlaceFrom(p, q) = NumBuff - 1
                        /\ \A i \in Slots : PlaceFrom(p, i) = NumBuff - 1
                                              => i = q
  BY LastPlace
<1>3. /\ NumBuff \in Nat \ {0} /\ AccumTime \in Nat \ {0}
      /\ origin \in Int /\ Len(posted) \in Nat
      /\ DOMAIN E = 1 .. Len(E)
  BY ParametersAre
<1>11. \A i \in 1 .. Len(E) : E[i].t \in Int
  <2>1. \A i \in 1 .. Len(E) : E[i] \in Event
    OBVIOUS
  <2>2. \A e \in Event : e.t \in Int
    BY AccumulatorAssumption DEF Event
  <2> QED
    BY <2>1, <2>2
<1>4. buff[q].leading = TRUE /\ \A i \in Slots \ {q} : buff[i].leading = FALSE
  BY <1>1, <1>2 DEF Tiled
<1>5. end \in Int /\ buff[q].t2 = end
  <2>1. /\ buff[q].t1 = Start(origin, Len(posted) + (NumBuff - 1))
        /\ buff[q].t2 = buff[q].t1 + AccumTime
    BY <1>1, <1>2 DEF Tiled, Start
  <2> DEFINE a == Len(posted) + (NumBuff - 1)
  <2>2. /\ a \in Int /\ a + 1 = Len(posted) + NumBuff
        /\ 1 \in Int /\ 1 * AccumTime = AccumTime
    BY <1>3
  <2> HIDE DEF a
  <2>3. /\ Start(origin, a) \in Int
        /\ Start(origin, a + 1) = Start(origin, a) + 1 * AccumTime
    BY <1>3, <2>2, WindowsLength
  <2> QED
    BY <1>3, <2>1, <2>2, <2>3 DEF a
<1> DEFINE over == IF E[m].t > end THEN E[m].t - end ELSE 0
           S == {0} \union {E[i].t - buff[q].t2 : i \in DOMAIN E}
<1>6. over \in Nat /\ (over > 0 <=> E[m].t > end)
  BY <1>3, <1>5, <1>11
<1>7. Overshoot(buff[q], E) = over
  <2>1. S \subseteq Int /\ over \in S
    BY <1>3, <1>5, <1>11
  <2>2. \A y \in S : y <= over
    BY <1>3, <1>5, <1>11
  <2>3. Max(S) = over
    <3> HIDE DEF S, over
    <3> QED
      BY <2>1, <2>2, MaxIs
  <2> QED
    BY <1>4, <2>3 DEF Overshoot
<1>8. \A i \in Slots \ {q} : Overshoot(buff[i], E) = 0
  BY <1>4 DEF Overshoot
<1> DEFINE beyond == {i \in Slots : Overshoot(buff[i], E) > 0}
<1>9. CASE E[m].t > end
  <2>1. beyond = {q}
    BY <1>6, <1>7, <1>8, <1>9
  <2>2. Max(beyond) = q
    <3>1. beyond \subseteq Int /\ q \in beyond /\ \A y \in beyond : y <= q
      BY <2>1 DEF Slots
    <3> HIDE DEF beyond
    <3> QED
      BY <3>1, MaxIs
  <2> QED
    BY <1>5, <1>7, <1>9, <2>1, <2>2 DEF BubbleWriteNum
<1>10. CASE ~ (E[m].t > end)
  <2>1. beyond = {}
    BY <1>6, <1>7, <1>8, <1>10
  <2> QED
    BY <1>5, <1>10, <2>1 DEF BubbleWriteNum
<1> QED
  BY <1>9, <1>10

-----------------------------------------------------------------------------
(* What a call adds to the packets.                                        *)

Arrived(E) == [i \in DOMAIN E |-> [event  |-> E[i],
                                   closed |-> Len(posted),
                                   newest |-> Newest(E)]]

LEMMA AcceptedIs == \A w : Accepted(w) = AcceptedOf(origin, arrivals, w)
  BY DEF Accepted, AcceptedOf, EventsOf, PlacesOf, InWindow, Late, OnTheEdge,
         OnEdge, WindowStart, Start

LEMMA EventsAre ==
  ASSUME TypeInv
  PROVE  /\ EventsOf(arrivals) \in Seq(Event)
         /\ Len(EventsOf(arrivals)) = Len(arrivals)
         /\ DOMAIN arrivals = 1 .. Len(arrivals)
         /\ \A j \in 1 .. Len(arrivals) : EventsOf(arrivals)[j] = arrivals[j].event
<1>1. arrivals \in Seq(Arrival) /\ DOMAIN arrivals = 1 .. Len(arrivals)
  BY DEF TypeInv
<1>2. \A j \in 1 .. Len(arrivals) : arrivals[j].event \in Event
  <2>1. \A j \in 1 .. Len(arrivals) : arrivals[j] \in Arrival
    BY <1>1
  <2>2. \A a \in Arrival : a.event \in Event
    BY DEF Arrival
  <2> QED
    BY <2>1, <2>2
<1> QED
  BY <1>1, <1>2 DEF EventsOf

LEMMA EventTimes ==
  ASSUME NEW s \in Seq(Event)
  PROVE  \A i \in 1 .. Len(s) : s[i].t \in Int
<1>1. \A i \in 1 .. Len(s) : s[i] \in Event
  OBVIOUS
<1>2. \A e \in Event : e.t \in Int
  BY AccumulatorAssumption DEF Event
<1> QED
  BY <1>1, <1>2

LEMMA ArrivalsAre ==
  ASSUME TypeInv
  PROVE  /\ Len(arrivals) \in Nat
         /\ \A j \in 1 .. Len(arrivals) : /\ arrivals[j].event.t \in Int
                                         /\ arrivals[j].closed \in Nat
<1>1. arrivals \in Seq(Arrival)
  BY DEF TypeInv
<1>2. \A j \in 1 .. Len(arrivals) : arrivals[j] \in Arrival
  BY <1>1
<1>3. \A a \in Arrival : a.event \in Event /\ a.closed \in Nat
  BY DEF Arrival
<1>4. \A e \in Event : e.t \in Int
  BY ParametersAre DEF Event
<1> QED
  BY <1>1, <1>2, <1>3, <1>4

LEMMA ArrivalsGrow ==
  ASSUME TypeInv, NEW E \in Seq(Event), Newest(E) \in Times,
         arrivals' = arrivals \o Arrived(E)
  PROVE  /\ arrivals' \in Seq(Arrival)
         /\ Len(arrivals') = Len(arrivals) + Len(E)
         /\ \A j \in 1 .. Len(arrivals) : arrivals'[j] = arrivals[j]
         /\ \A i \in 1 .. Len(E) :
              /\ arrivals'[Len(arrivals) + i].event = E[i]
              /\ arrivals'[Len(arrivals) + i].closed = Len(posted)
              /\ arrivals'[Len(arrivals) + i].newest = Newest(E)
<1>1. arrivals \in Seq(Arrival) /\ Len(posted) \in Nat
  BY DEF TypeInv
<1>2. \A i \in 1 .. Len(E) : [event  |-> E[i],
                             closed |-> Len(posted),
                             newest |-> Newest(E)] \in Arrival
  BY <1>1 DEF Arrival
<1>3. /\ Arrived(E) \in Seq(Arrival) /\ Len(Arrived(E)) = Len(E)
      /\ \A i \in 1 .. Len(E) : Arrived(E)[i] = [event  |-> E[i],
                                                 closed |-> Len(posted),
                                                 newest |-> Newest(E)]
  <2>1. Len(E) \in Nat /\ DOMAIN E = 1 .. Len(E)
    OBVIOUS
  <2>2. PICK R : R = Arrived(E)
    OBVIOUS
  <2>3. R = [i \in 1 .. Len(E) |-> [event  |-> E[i],
                                   closed |-> Len(posted),
                                   newest |-> Newest(E)]]
    BY <2>1, <2>2 DEF Arrived
  <2>4. \A i \in 1 .. Len(E) : R[i] = [event  |-> E[i],
                                      closed |-> Len(posted),
                                      newest |-> Newest(E)]
    BY <2>3
  <2>5. R = [i \in 1 .. Len(E) |-> R[i]]
    BY <2>3
  <2>6. R \in [1 .. Len(E) -> Arrival]
    BY <1>2, <2>4, <2>5
  <2>7. R \in Seq(Arrival) /\ Len(R) = Len(E)
    BY <2>1, <2>6
  <2> QED
    BY <2>2, <2>4, <2>7
<1>4. PICK R \in Seq(Arrival) : R = Arrived(E)
  BY <1>3
<1>5. /\ arrivals \o R \in Seq(Arrival)
      /\ Len(arrivals \o R) = Len(arrivals) + Len(R)
      /\ \A j \in 1 .. Len(arrivals) + Len(R) :
           (arrivals \o R)[j] = IF j <= Len(arrivals) THEN arrivals[j]
                                ELSE R[j - Len(arrivals)]
  BY <1>1, ConcatProperties
<1>6. \A i \in 1 .. Len(E) :
        /\ Len(arrivals) + i \in 1 .. Len(arrivals) + Len(E)
        /\ ~ (Len(arrivals) + i <= Len(arrivals))
        /\ (Len(arrivals) + i) - Len(arrivals) = i
  BY <1>1
<1>7. \A i \in 1 .. Len(E) : arrivals'[Len(arrivals) + i] = Arrived(E)[i]
  BY <1>3, <1>4, <1>5, <1>6
<1>8. ASSUME NEW i \in 1 .. Len(E)
      PROVE  /\ Arrived(E)[i].event = E[i]
             /\ Arrived(E)[i].closed = Len(posted)
             /\ Arrived(E)[i].newest = Newest(E)
  <2>1. PICK x : x = Arrived(E)[i]
    OBVIOUS
  <2>2. x = [event |-> E[i], closed |-> Len(posted), newest |-> Newest(E)]
    BY <1>3, <2>1
  <2> QED
    BY <2>1, <2>2
<1> QED
  BY <1>1, <1>3, <1>4, <1>5, <1>7, <1>8

\* The events of a call that belong in a window follow those that were there.
LEMMA AcceptedGrows ==
  ASSUME TypeInv, NEW E \in Seq(Event), Newest(E) \in Times,
         arrivals' = arrivals \o Arrived(E),
         NEW w, NEW Q,
         \A i \in 1 .. Len(E) :
           i \in Q <=>
             /\ Start(origin, w) <= E[i].t
             /\ E[i].t < Start(origin, w + 1)
             /\ ~ (E[i].t < Start(origin, Len(posted)))
             /\ ~ (/\ E[i].t = Start(origin, Len(posted) + NumBuff)
                   /\ Newest(E) = E[i].t)
  PROVE  AcceptedOf(origin, arrivals', w)
           = AcceptedOf(origin, arrivals, w) \o ElementsAt(E, Q)
<1>1. /\ arrivals' \in Seq(Arrival)
      /\ Len(arrivals') = Len(arrivals) + Len(E)
      /\ \A j \in 1 .. Len(arrivals) : arrivals'[j] = arrivals[j]
      /\ \A i \in 1 .. Len(E) :
           /\ arrivals'[Len(arrivals) + i].event = E[i]
           /\ arrivals'[Len(arrivals) + i].closed = Len(posted)
           /\ arrivals'[Len(arrivals) + i].newest = Newest(E)
  BY ArrivalsGrow
<1>8. PICK ev \in Seq(Event) : ev = EventsOf(arrivals)
  BY EventsAre
<1>2. /\ ev \in Seq(Event)
      /\ Len(ev) = Len(arrivals)
      /\ \A j \in 1 .. Len(arrivals) : ev[j] = arrivals[j].event
      /\ DOMAIN arrivals = 1 .. Len(arrivals)
      /\ Len(arrivals) \in Nat /\ Len(E) \in Nat
  BY <1>8, EventsAre
<1>3. /\ DOMAIN arrivals' = 1 .. Len(arrivals')
      /\ EventsOf(arrivals') = [j \in DOMAIN arrivals' |-> arrivals'[j].event]
  BY <1>1 DEF EventsOf
<1>4. EventsOf(arrivals') = ev \o E
  <2> DEFINE both == ev \o E
  <2>1. /\ both \in Seq(Event)
        /\ Len(both) = Len(arrivals) + Len(E)
        /\ \A j \in 1 .. Len(arrivals) + Len(E) :
             both[j] = IF j <= Len(arrivals) THEN ev[j]
                       ELSE E[j - Len(arrivals)]
    <3>1. /\ both \in Seq(Event)
          /\ Len(both) = Len(ev) + Len(E)
          /\ \A j \in 1 .. Len(ev) + Len(E) :
               both[j] = IF j <= Len(ev) THEN ev[j] ELSE E[j - Len(ev)]
      BY ConcatProperties
    <3> QED
      BY <1>2, <3>1
  <2> HIDE DEF both
  <2>2. ASSUME NEW j \in 1 .. Len(arrivals')
        PROVE  EventsOf(arrivals')[j] = both[j]
    <3>1. CASE j <= Len(arrivals)
      <4>1. j \in 1 .. Len(arrivals) /\ j \in 1 .. Len(arrivals) + Len(E)
        BY <1>1, <1>2, <3>1
      <4>2. EventsOf(arrivals')[j] = arrivals'[j].event
        BY <1>3
      <4>3. arrivals'[j].event = ev[j]
        BY <1>1, <1>2, <4>1
      <4>4. both[j] = ev[j]
        BY <2>1, <3>1, <4>1
      <4> QED
        BY <4>2, <4>3, <4>4
    <3>2. CASE ~ (j <= Len(arrivals))
      <4>1. PICK i \in 1 .. Len(E) : j = Len(arrivals) + i
        <5>1. j - Len(arrivals) \in 1 .. Len(E)
          BY <1>1, <1>2, <3>2
        <5>2. j = Len(arrivals) + (j - Len(arrivals))
          BY <1>1, <1>2
        <5> QED
          BY <5>1, <5>2
      <4>2. EventsOf(arrivals')[j] = arrivals'[j].event
        BY <1>3
      <4>3. arrivals'[j].event = E[i]
        BY <1>1, <4>1
      <4>4. both[j] = E[i]
        BY <1>1, <1>2, <2>1, <3>2, <4>1
      <4> QED
        BY <4>2, <4>3, <4>4
    <3> QED
      BY <3>1, <3>2
  <2>3. both = [j \in 1 .. Len(arrivals') |-> both[j]]
    BY <1>1, <2>1
  <2>4. EventsOf(arrivals')
          = [j \in 1 .. Len(arrivals') |-> EventsOf(arrivals')[j]]
    BY <1>3
  <2>5. EventsOf(arrivals') = both
    BY <2>2, <2>3, <2>4
  <2> QED
    BY <2>5 DEF both
<1>5. ASSUME NEW j \in 1 .. Len(arrivals)
      PROVE  j \in PlacesOf(origin, arrivals', w)
               <=> j \in PlacesOf(origin, arrivals, w)
  <2>1. /\ j \in DOMAIN arrivals /\ j \in DOMAIN arrivals'
        /\ arrivals'[j] = arrivals[j]
    BY <1>1, <1>2, <1>3
  <2> QED
    BY <2>1 DEF PlacesOf, OnEdge
<1>6. ASSUME NEW i \in 1 .. Len(E)
      PROVE  i \in Q <=> Len(ev) + i \in PlacesOf(origin, arrivals', w)
  <2> DEFINE j == Len(arrivals) + i
  <2>1. j \in DOMAIN arrivals'
    BY <1>1, <1>2, <1>3
  <2>2. /\ arrivals'[j].event = E[i]
        /\ arrivals'[j].closed = Len(posted)
        /\ arrivals'[j].newest = Newest(E)
    BY <1>1
  <2> HIDE DEF j
  <2>3. j \in PlacesOf(origin, arrivals', w) <=>
             /\ Start(origin, w) <= E[i].t
             /\ E[i].t < Start(origin, w + 1)
             /\ ~ (E[i].t < Start(origin, Len(posted)))
             /\ ~ (/\ E[i].t = Start(origin, Len(posted) + NumBuff)
                   /\ Newest(E) = E[i].t)
    BY <2>1, <2>2 DEF PlacesOf, OnEdge
  <2> QED
    BY <1>2, <2>3 DEF j
<1>7. PICK P : P = PlacesOf(origin, arrivals', w)
  OBVIOUS
<1>12. \A i \in 1 .. Len(E) : i \in Q <=> Len(ev) + i \in P
  BY <1>6, <1>7, <1>8
<1>9. ElementsAt(ev \o E, P) = ElementsAt(ev, P) \o ElementsAt(E, Q)
  BY <1>12, ElementsAtConcat
<1>11. ElementsAt(ev, P) = ElementsAt(ev, PlacesOf(origin, arrivals, w))
  <2>1. PICK old : old = PlacesOf(origin, arrivals, w)
    OBVIOUS
  <2>2. /\ Len(ev) \in Nat
        /\ \A j \in 1 .. Len(ev) : /\ j \in P <=> j \in old
                                   /\ j \in P => ev[j] = ev[j]
    BY <1>2, <1>5, <1>7, <1>8, <2>1
  <2> QED
    BY <2>1, <2>2, ElementsAtAgree
<1>10. AcceptedOf(origin, arrivals', w) = ElementsAt(EventsOf(arrivals'), P)
  BY <1>7 DEF AcceptedOf
<1> QED
  BY <1>4, <1>8, <1>9, <1>10, <1>11 DEF AcceptedOf

LEMMA BubbleNames ==
  ASSUME NEW bs, NEW p \in Slots, \A i \in Slots : bs[i].bubble = (i = p)
  PROVE  Min({i \in Slots : bs[i].bubble}) = p
<1>1. {i \in Slots : bs[i].bubble} = {p}
  OBVIOUS
<1>2. Min({p}) = p
  BY DEF Min, Slots
<1> QED
  BY <1>1, <1>2

\* What is known of a ring whose bubble is p: the windows of its buffers.
LEMMA RingWindows ==
  ASSUME TypeInv, RingInv
  PROVE  /\ Bubble \in Slots
         /\ Tiled(buff, Bubble, Len(posted), origin)
         /\ \A i \in Slots :
              /\ PlaceFrom(Bubble, i) \in 0 .. NumBuff - 1
              /\ buff[i].t1 = Start(origin, Len(posted) + PlaceFrom(Bubble, i))
              /\ buff[i].t2 = Start(origin,
                                    (Len(posted) + PlaceFrom(Bubble, i)) + 1)
<1>1. PICK p \in Slots : Tiled(buff, p, Len(posted), origin)
  BY DEF RingInv
<1>2. Bubble = p
  BY <1>1, BubbleIsThere
<1>3. ASSUME NEW i \in Slots
      PROVE  /\ PlaceFrom(p, i) \in 0 .. NumBuff - 1
             /\ buff[i].t1 = Start(origin, Len(posted) + PlaceFrom(p, i))
             /\ buff[i].t2 = Start(origin, (Len(posted) + PlaceFrom(p, i)) + 1)
  <2>1. PlaceFrom(p, i) \in 0 .. NumBuff - 1
    BY ParametersAre DEF PlaceFrom, Slots
  <2>2. PICK w : w = Len(posted) + PlaceFrom(p, i)
    OBVIOUS
  <2>3. w \in Int /\ 1 \in Int /\ origin \in Int /\ 1 * AccumTime = AccumTime
    BY <2>1, <2>2, ParametersAre
  <2>4. Start(origin, w + 1) = Start(origin, w) + 1 * AccumTime
    BY <2>3, WindowsLength
  <2>5. /\ buff[i].t1 = origin + w * AccumTime
        /\ buff[i].t2 = buff[i].t1 + AccumTime
    BY <1>1, <2>2 DEF Tiled
  <2>6. buff[i].t1 = Start(origin, w)
    BY <2>5 DEF Start
  <2> QED
    BY <2>1, <2>2, <2>3, <2>4, <2>5, <2>6
<1> QED
  BY <1>1, <1>2, <1>3

LEMMA AccumulateTypes ==
  ASSUME TypeInv, CallInv, RingInv,
         NEW n \in 1 .. MaxBatch, NEW times \in [1 .. n -> Times],
         NEW E, E = Batch(times), Accumulate(E)
  PROVE  /\ TypeInv' /\ CallInv'
         /\ arrivals' = arrivals \o Arrived(E)
         /\ phase = "running" /\ left = 0 /\ batch = <<>>
         /\ UNCHANGED <<phase, posted, origin>>
         /\ Bubble' = Bubble
<1>1. /\ E \in Seq(Event) /\ Newest(E) \in Times
  BY BatchIs
<1>2. /\ phase = "running" /\ left = 0
      /\ UNCHANGED <<phase, posted, origin>>
      /\ buff' = [i \in Slots |-> BufferData(buff[i], E)]
      /\ left' = BubbleWriteNum(buff, E)
      /\ batch' = IF left' = 0 THEN <<>> ELSE E
  BY DEF Accumulate
<1>3. arrivals' = arrivals \o Arrived(E)
  BY DEF Accumulate, Arrived
<1>4. ASSUME NEW i \in Slots
      PROVE  /\ buff'[i].data \in Seq(Event)
             /\ buff'[i].bubble = buff[i].bubble
  <2>1. buff[i] = [f \in Fields |-> buff[i][f]] /\ buff[i].data \in Seq(Event)
    BY DEF RingInv, Records, TypeInv
  <2>2. buff'[i] = BufferData(buff[i], E)
    BY <1>2
  <2>3. PICK P : buff'[i].data = buff[i].data \o ElementsAt(E, P)
    BY <2>1, <2>2 DEF BufferData, Fields
  <2>4. ElementsAt(E, P) \in Seq(Event)
    BY <1>1, ElementsAtType
  <2>5. PICK s \in Seq(Event), t \in Seq(Event) :
          s = buff[i].data /\ t = ElementsAt(E, P)
    BY <2>1, <2>4
  <2>6. s \o t \in Seq(Event)
    OBVIOUS
  <2>7. buff'[i].bubble = buff[i].bubble
    BY <2>1, <2>2, BufferDataFrame
  <2>8. buff'[i].data = s \o t
    BY <2>3, <2>5
  <2> QED
    BY <2>6, <2>7, <2>8
<1>5. left' \in Nat
  <2>1. PICK m \in 1 .. Len(E) : /\ E[m].t = Newest(E)
                                /\ \A i \in 1 .. Len(E) : E[i].t <= E[m].t
    BY BatchIs
  <2>2. PICK end : end = Start(origin, Len(posted) + NumBuff)
    OBVIOUS
  <2>3. /\ end \in Int
        /\ BubbleWriteNum(buff, E) =
             IF E[m].t > end THEN ((E[m].t - end) \div AccumTime) + 1 ELSE 0
    BY <1>1, <2>1, <2>2, BubbleWriteNumIs
  <2>4. E[m].t \in Int
    BY <1>1, <2>1, ParametersAre
  <2>5. CASE E[m].t > end
    <3>1. E[m].t - end \in Nat /\ AccumTime \in Nat \ {0}
      BY <2>3, <2>4, <2>5, ParametersAre
    <3>2. (E[m].t - end) \div AccumTime \in Nat
      BY <3>1, DivBounds
    <3> QED
      BY <1>2, <2>3, <2>5, <3>2
  <2> QED
    BY <1>2, <2>3, <2>5
<1>6. arrivals' \in Seq(Arrival)
  BY <1>1, <1>3, ArrivalsGrow
<1>7. batch' \in Seq(Event)
  BY <1>1, <1>2
<1>8. batch = <<>>
  BY <1>2 DEF CallInv
<1>9. Bubble' = Bubble
  <2>1. {i \in Slots : buff'[i].bubble} = {i \in Slots : buff[i].bubble}
    BY <1>4
  <2> QED
    BY <2>1 DEF Bubble
<1>10. TypeInv'
  BY <1>2, <1>4, <1>5, <1>6, <1>7 DEF TypeInv
<1>11. CallInv'
  BY <1>2 DEF CallInv
<1> QED
  BY <1>2, <1>3, <1>8, <1>9, <1>10, <1>11

\* What a call does to the end of the ring: either its newest event is within
\* it, or the call will post enough windows for the ring to hold it.
LEMMA AccumulateReach ==
  ASSUME TypeInv, RingInv, NEW n \in 1 .. MaxBatch,
         NEW times \in [1 .. n -> Times], NEW E, E = Batch(times),
         Accumulate(E)
  PROVE  /\ left' \in Nat
         /\ Start(origin, Len(posted) + NumBuff) \in Int
         /\ Newest(E) \in Int
         /\ left' = 0 => Newest(E) <= Start(origin, Len(posted) + NumBuff)
         /\ left' > 0 =>
              /\ Newest(E) > Start(origin, Len(posted) + NumBuff)
              /\ Newest(E) < Start(origin, Len(posted) + NumBuff + left')
              /\ Newest(E) >= Start(origin, Len(posted) + left' - 1 + NumBuff)
<1>1. PICK m \in 1 .. Len(E) : /\ E[m].t = Newest(E)
                              /\ \A i \in 1 .. Len(E) : E[i].t <= E[m].t
  BY BatchIs
<1>2. PICK end : end = Start(origin, Len(posted) + NumBuff)
  OBVIOUS
<1>3. E \in Seq(Event) /\ Newest(E) \in Int
  BY BatchIs, ParametersAre
<1>4. /\ end \in Int
      /\ left' =
           IF Newest(E) > end THEN ((Newest(E) - end) \div AccumTime) + 1 ELSE 0
  <2>1. /\ end \in Int
        /\ BubbleWriteNum(buff, E) =
             IF E[m].t > end THEN ((E[m].t - end) \div AccumTime) + 1 ELSE 0
    BY <1>1, <1>2, <1>3, BubbleWriteNumIs
  <2> QED
    BY <1>1, <2>1 DEF Accumulate
<1>5. CASE Newest(E) > end
  <2>1. PICK x \in Nat : x = Newest(E) - end
    BY <1>3, <1>4, <1>5
  <2>2. PICK q : q = x \div AccumTime
    OBVIOUS
  <2>3. q \in Nat /\ q * AccumTime <= x /\ x < (q + 1) * AccumTime
    BY <2>1, <2>2, DivBounds, ParametersAre
  <2>4. left' = q + 1
    BY <1>4, <1>5, <2>1, <2>2
  <2>5. PICK a \in Int : a = Len(posted) + NumBuff
    BY ParametersAre
  <2>6. PICK r \in Int : r = q + 1
    BY <2>3
  <2>7. /\ Start(origin, a + r) = Start(origin, a) + r * AccumTime
        /\ Start(origin, a + q) = Start(origin, a) + q * AccumTime
    <3>1. origin \in Int /\ q \in Int
      BY <2>3, ParametersAre
    <3>2. Start(origin, a + r) = Start(origin, a) + r * AccumTime
      BY <3>1, StartsApart, Zenon
    <3>3. Start(origin, a + q) = Start(origin, a) + q * AccumTime
      BY <3>1, StartsApart, Zenon
    <3> QED
      BY <3>2, <3>3
  <2>8. /\ Len(posted) + NumBuff + left' = a + r
        /\ Len(posted) + left' - 1 + NumBuff = a + q
    BY <2>3, <2>4, <2>5, <2>6, ParametersAre
  <2>9. PICK y \in Int, z \in Int : y = q * AccumTime /\ z = r * AccumTime
    BY <2>3, ParametersAre
  <2>10. q * AccumTime <= x /\ x < r * AccumTime
    BY <2>3, <2>6
  <2>11. y <= x /\ x < z
    BY <2>9, <2>10
  <2>12. Newest(E) >= end + y /\ Newest(E) < end + z
    BY <1>3, <1>4, <2>1, <2>9, <2>11
  <2>13. /\ Newest(E) < Start(origin, a + r)
         /\ Newest(E) >= Start(origin, a + q)
    BY <1>2, <2>5, <2>7, <2>9, <2>12
  <2>14. left' \in Nat /\ left' # 0
    BY <2>3, <2>4
  <2> QED
    BY <1>2, <1>3, <1>4, <1>5, <2>8, <2>13, <2>14
<1>6. CASE ~ (Newest(E) > end)
  BY <1>2, <1>3, <1>4, <1>6
<1> QED
  BY <1>5, <1>6

\* The ring and the packets after the events of a call were taken.
LEMMA AccumulatePackets ==
  ASSUME TypeInv, CallInv, PacketsInv, RingInv,
         NEW n \in 1 .. MaxBatch, NEW times \in [1 .. n -> Times],
         NEW E, E = Batch(times), Accumulate(E)
  PROVE  PacketsInv'
<1>1. /\ arrivals' = arrivals \o Arrived(E)
      /\ left = 0 /\ batch = <<>>
      /\ UNCHANGED <<posted, origin>>
      /\ Bubble' = Bubble
  BY AccumulateTypes
<1>2. /\ E \in Seq(Event) /\ Newest(E) \in Times /\ Newest(E) \in Int
      /\ \A i \in 1 .. Len(E) : E[i].t <= Newest(E)
  BY BatchIs, ParametersAre
<1>3. /\ \A i \in 1 .. Len(E) : E[i].t \in Int
      /\ DOMAIN E = 1 .. Len(E)
  <2>1. \A i \in 1 .. Len(E) : E[i] \in Event
    BY <1>2
  <2>2. \A e \in Event : e.t \in Int
    BY ParametersAre DEF Event
  <2> QED
    BY <1>2, <2>1, <2>2
<1>4. PICK k \in Nat, o \in Int :
        k = Len(posted) /\ o = origin /\ k + NumBuff \in Int
  BY ParametersAre
<1>5. PICK end \in Int : end = Start(o, k + NumBuff)
  BY <1>4, ParametersAre, Starts
<1>6. NumBuff \in Nat \ {0} /\ AccumTime \in Nat \ {0}
  BY ParametersAre
<1>7. ASSUME NEW w \in 0 .. k - 1
      PROVE  posted'[w + 1] = AcceptedOf(o, arrivals', w)
  <2>1. w + 1 \in Int /\ w + 1 <= k /\ w \in Int
    BY <1>4
  <2>2. /\ Start(o, w + 1) <= Start(o, k)
        /\ Start(o, w + 1) \in Int /\ Start(o, k) \in Int
    <3>1. k \in Int
      BY <1>4
    <3> QED
      BY <2>1, <3>1, Starts, Zenon
  <2>3. \A i \in 1 .. Len(E) :
          ~ (E[i].t < Start(o, w + 1) /\ ~ (E[i].t < Start(o, k)))
    BY <1>3, <2>2
  <2>4. PICK Q : Q = {}
    OBVIOUS
  <2>5. AcceptedOf(o, arrivals', w)
          = AcceptedOf(o, arrivals, w) \o ElementsAt(E, Q)
    <3>1. \A i \in 1 .. Len(E) :
            i \in Q <=>
              /\ Start(origin, w) <= E[i].t
              /\ E[i].t < Start(origin, w + 1)
              /\ ~ (E[i].t < Start(origin, Len(posted)))
              /\ ~ (/\ E[i].t = Start(origin, Len(posted) + NumBuff)
                    /\ Newest(E) = E[i].t)
      BY <1>4, <2>3, <2>4
    <3> QED
      BY <1>1, <1>2, <1>4, <3>1, AcceptedGrows
  <2>6. ElementsAt(E, Q) = <<>>
    <3>1. Len(E) \in Nat /\ \A i \in 1 .. Len(E) : i \notin Q
      BY <1>2, <2>4
    <3> QED
      BY <3>1, ElementsAtNone
  <2>7. posted[w + 1] = AcceptedOf(o, arrivals, w)
    BY <1>4 DEF PacketsInv
  <2>8. PICK s \in Seq(Event) : s = AcceptedOf(o, arrivals, w)
    BY EventsAre, ElementsAtType DEF AcceptedOf
  <2>9. s \o <<>> = s
    OBVIOUS
  <2> QED
    BY <1>1, <2>5, <2>6, <2>7, <2>8, <2>9
<1>8. ASSUME NEW i \in Slots
      PROVE  buff'[i].data
               = AcceptedOf(o, arrivals', k + PlaceFrom(Bubble, i))
  <2>1. PICK w : w = k + PlaceFrom(Bubble, i)
    OBVIOUS
  <2>2. /\ PlaceFrom(Bubble, i) \in 0 .. NumBuff - 1
        /\ buff[i].t1 = Start(o, w)
        /\ buff[i].t2 = Start(o, w + 1)
    BY <1>4, <2>1, RingWindows
  <2>3. /\ w \in Int /\ k <= w /\ w + 1 \in Int /\ w + 1 <= k + NumBuff
    BY <1>4, <1>6, <2>1, <2>2
  <2>4. /\ Start(o, k) <= Start(o, w) /\ Start(o, w + 1) <= end
        /\ Start(o, k) \in Int /\ Start(o, w) \in Int
        /\ Start(o, w + 1) \in Int
    <3>1. k \in Int /\ k + NumBuff \in Int
      BY <1>4
    <3> QED
      BY <1>5, <2>3, <3>1, Starts, Zenon
  <2>5. PICK Q : Q = InsideOf(o, E, w)
    OBVIOUS
  <2>6. AcceptedOf(o, arrivals', w)
          = AcceptedOf(o, arrivals, w) \o ElementsAt(E, Q)
    <3>1. \A j \in 1 .. Len(E) :
            j \in Q <=> Start(o, w) <= E[j].t /\ E[j].t < Start(o, w + 1)
      BY <1>3, <2>5 DEF InsideOf
    <3>2. \A j \in 1 .. Len(E) :
            j \in Q <=>
              /\ Start(o, w) <= E[j].t
              /\ E[j].t < Start(o, w + 1)
              /\ ~ (E[j].t < Start(o, k))
              /\ ~ (/\ E[j].t = end
                    /\ Newest(E) = E[j].t)
      BY <1>3, <1>5, <2>4, <3>1
    <3>3. \A j \in 1 .. Len(E) :
            j \in Q <=>
              /\ Start(origin, w) <= E[j].t
              /\ E[j].t < Start(origin, w + 1)
              /\ ~ (E[j].t < Start(origin, Len(posted)))
              /\ ~ (/\ E[j].t = Start(origin, Len(posted) + NumBuff)
                    /\ Newest(E) = E[j].t)
      BY <1>4, <1>5, <3>2
    <3> QED
      BY <1>1, <1>2, <1>4, <3>3, AcceptedGrows
  <2>7. buff[i].data = AcceptedOf(o, arrivals, w)
    BY <1>4, <2>1 DEF PacketsInv
  <2>8. buff'[i].data = buff[i].data \o ElementsAt(E, Q)
    <3>1. buff[i] = [f \in Fields |-> buff[i][f]]
      BY DEF RingInv, Records
    <3>2. buff'[i] = BufferData(buff[i], E)
      BY DEF Accumulate
    <3>3. PICK b : b = buff[i]
      OBVIOUS
    <3>4. /\ b = [f \in Fields |-> b[f]]
          /\ b.t1 = Start(o, w) /\ b.t2 = Start(o, w + 1)
      BY <2>2, <3>1, <3>3
    <3>5. BufferData(b, E).data = b.data \o ElementsAt(E, InsideOf(o, E, w))
      BY <3>4 DEF BufferData, InsideOf, Fields
    <3> QED
      BY <2>5, <3>2, <3>3, <3>5
  <2> QED
    BY <2>1, <2>6, <2>7, <2>8
<1>9. ASSUME NEW w \in Nat, w >= k + NumBuff
      PROVE  AcceptedOf(o, arrivals', w)
               = ElementsAt(batch', InsideOf(o, batch', w))
  <2>1. /\ end <= Start(o, w) /\ Start(o, k) <= end
        /\ Start(o, k) \in Int /\ Start(o, w) \in Int
        /\ Start(o, w + 1) \in Int
    <3>1. /\ w \in Int /\ w + 1 \in Int /\ k + NumBuff <= w
          /\ k <= k + NumBuff /\ k \in Int /\ k + NumBuff \in Int
      BY <1>4, <1>6, <1>9
    <3> QED
      BY <1>5, <3>1, Starts, Zenon
  <2>2. AcceptedOf(o, arrivals, w) = <<>>
    <3>1. AcceptedOf(o, arrivals, w) = ElementsAt(batch, InsideOf(o, batch, w))
      BY <1>4, <1>9 DEF PacketsInv
    <3> QED
      BY <1>1, <3>1, ElementsAtEmpty
  <2>3. ASSUME NEW Q, Q \subseteq DOMAIN E,
               \A j \in 1 .. Len(E) :
                 j \in Q <=>
                   /\ Start(o, w) <= E[j].t
                   /\ E[j].t < Start(o, w + 1)
                   /\ ~ (E[j].t = end /\ Newest(E) = E[j].t)
        PROVE  AcceptedOf(o, arrivals', w) = ElementsAt(E, Q)
    <3>1. \A j \in 1 .. Len(E) :
            j \in Q <=>
              /\ Start(o, w) <= E[j].t
              /\ E[j].t < Start(o, w + 1)
              /\ ~ (E[j].t < Start(o, k))
              /\ ~ (/\ E[j].t = end
                    /\ Newest(E) = E[j].t)
      BY <1>3, <2>1, <2>3
    <3>2. \A j \in 1 .. Len(E) :
            j \in Q <=>
              /\ Start(origin, w) <= E[j].t
              /\ E[j].t < Start(origin, w + 1)
              /\ ~ (E[j].t < Start(origin, Len(posted)))
              /\ ~ (/\ E[j].t = Start(origin, Len(posted) + NumBuff)
                    /\ Newest(E) = E[j].t)
      BY <1>4, <1>5, <3>1
    <3>3. AcceptedOf(o, arrivals', w)
            = AcceptedOf(o, arrivals, w) \o ElementsAt(E, Q)
      BY <1>1, <1>2, <1>4, <3>2, AcceptedGrows
    <3>4. PICK s \in Seq(Event) : s = ElementsAt(E, Q)
      BY <1>2, ElementsAtType
    <3>5. <<>> \o s = s
      OBVIOUS
    <3> QED
      BY <2>2, <3>3, <3>4, <3>5
  <2>4. CASE left' = 0
    <3>1. batch' = <<>>
      BY <2>4 DEF Accumulate
    <3>2. Newest(E) <= end
      BY <1>4, <1>5, <2>4, AccumulateReach
    <3>3. PICK Q : Q = {}
      OBVIOUS
    <3>4. \A j \in 1 .. Len(E) :
            j \in Q <=>
              /\ Start(o, w) <= E[j].t
              /\ E[j].t < Start(o, w + 1)
              /\ ~ (E[j].t = end /\ Newest(E) = E[j].t)
      BY <1>2, <1>3, <2>1, <3>2, <3>3
    <3>5. AcceptedOf(o, arrivals', w) = ElementsAt(E, Q)
      BY <2>3, <3>3, <3>4
    <3>6. ElementsAt(E, Q) = <<>>
      <4>1. Len(E) \in Nat /\ \A j \in 1 .. Len(E) : j \notin Q
        BY <1>2, <3>3
      <4> QED
        BY <4>1, ElementsAtNone
    <3> QED
      BY <3>1, <3>5, <3>6, ElementsAtEmpty
  <2>5. CASE left' # 0
    <3>1. batch' = E
      BY <2>5 DEF Accumulate
    <3>2. Newest(E) > end
      <4>1. left' \in Nat /\ left' > 0
        BY <2>5, AccumulateReach
      <4> QED
        BY <1>4, <1>5, <4>1, AccumulateReach
    <3>3. PICK Q : Q = InsideOf(o, E, w)
      OBVIOUS
    <3>4. /\ Q \subseteq DOMAIN E
          /\ \A j \in 1 .. Len(E) :
               j \in Q <=> Start(o, w) <= E[j].t /\ E[j].t < Start(o, w + 1)
      BY <1>3, <3>3 DEF InsideOf
    <3>5. \A j \in 1 .. Len(E) :
            j \in Q <=>
              /\ Start(o, w) <= E[j].t
              /\ E[j].t < Start(o, w + 1)
              /\ ~ (E[j].t = end /\ Newest(E) = E[j].t)
      BY <1>2, <1>3, <3>2, <3>4
    <3> QED
      BY <2>3, <3>1, <3>3, <3>4, <3>5
  <2> QED
    BY <2>4, <2>5
<1> QED
  BY <1>1, <1>4, <1>7, <1>8, <1>9 DEF PacketsInv

\* How far the events lie after a call.
LEMMA AccumulateReaches ==
  ASSUME TypeInv, CallInv, ReachInv, StaleInv, RingInv,
         NEW n \in 1 .. MaxBatch, NEW times \in [1 .. n -> Times],
         NEW E, E = Batch(times), Accumulate(E)
  PROVE  ReachInv' /\ StaleInv'
<1>1. /\ arrivals' = arrivals \o Arrived(E)
      /\ phase = "running" /\ phase' = "running" /\ left = 0 /\ batch = <<>>
      /\ UNCHANGED <<posted, origin>>
  BY AccumulateTypes
<1>2. /\ E \in Seq(Event) /\ Newest(E) \in Times /\ Newest(E) \in Int
      /\ \A i \in 1 .. Len(E) : E[i].t <= Newest(E)
      /\ Len(E) \in Nat
  BY BatchIs, ParametersAre
<1>3. \A i \in 1 .. Len(E) : E[i].t \in Int
  <2>1. \A i \in 1 .. Len(E) : E[i] \in Event
    BY <1>2
  <2>2. \A e \in Event : e.t \in Int
    BY ParametersAre DEF Event
  <2> QED
    BY <2>1, <2>2
<1>4. PICK k \in Nat, o \in Int :
        k = Len(posted) /\ o = origin /\ k + NumBuff \in Int
  BY ParametersAre
<1>5. PICK l \in Nat : l = left'
  BY AccumulateReach
<1>6. PICK end \in Int : end = Start(o, k + NumBuff)
  BY <1>4, ParametersAre, Starts
<1>7. PICK beyond \in Int : beyond = Start(o, k + NumBuff + l)
  <2>1. k + NumBuff + l \in Int
    BY <1>4, ParametersAre
  <2> QED
    BY <2>1, Starts, Zenon
<1>8. /\ end <= beyond
      /\ l = 0 => beyond = end /\ Newest(E) <= end
      /\ l > 0 => Newest(E) < beyond
  <2>1. end <= beyond
    <3>1. /\ k + NumBuff + l \in Int /\ k + NumBuff \in Int
          /\ k + NumBuff <= k + NumBuff + l
      BY <1>4, ParametersAre
    <3> QED
      BY <1>6, <1>7, <3>1, Starts
  <2>2. l = 0 => beyond = end
    <3>1. k + NumBuff + 0 = k + NumBuff
      BY <1>4, ParametersAre
    <3> QED
      BY <1>6, <1>7, <3>1
  <2>3. l = 0 => Newest(E) <= end
    BY <1>4, <1>5, <1>6, AccumulateReach
  <2>4. l > 0 => Newest(E) < beyond
    BY <1>4, <1>5, <1>7, AccumulateReach
  <2> QED
    BY <2>1, <2>2, <2>3, <2>4
<1>9. /\ Reach' = k + NumBuff + l
      /\ Reach = k + NumBuff
  BY <1>1, <1>4, <1>5 DEF Reach
<1>10. /\ arrivals' \in Seq(Arrival)
       /\ Len(arrivals') = Len(arrivals) + Len(E)
       /\ \A j \in 1 .. Len(arrivals) : arrivals'[j] = arrivals[j]
       /\ \A i \in 1 .. Len(E) :
            /\ arrivals'[Len(arrivals) + i].event = E[i]
            /\ arrivals'[Len(arrivals) + i].closed = Len(posted)
            /\ arrivals'[Len(arrivals) + i].newest = Newest(E)
  BY <1>1, <1>2, ArrivalsGrow
<1>11. Len(arrivals) \in Nat
  BY DEF TypeInv
<1>12. ASSUME NEW j \in 1 .. Len(arrivals')
       PROVE  \/ j \in 1 .. Len(arrivals)
              \/ \E i \in 1 .. Len(E) : j = Len(arrivals) + i
  <2>1. CASE ~ (j <= Len(arrivals))
    <3>1. j - Len(arrivals) \in 1 .. Len(E)
      BY <1>2, <1>10, <1>11, <2>1
    <3>2. j = Len(arrivals) + (j - Len(arrivals))
      BY <1>11
    <3> QED
      BY <3>1, <3>2
  <2>2. CASE j <= Len(arrivals)
    BY <1>11, <2>2
  <2> QED
    BY <2>1, <2>2
<1>13. \A i \in 1 .. Len(batch') : batch'[i].t < beyond
  <2>1. CASE l = 0
    <3>1. batch' = <<>> /\ Len(batch') = 0
      BY <1>5, <2>1 DEF Accumulate
    <3> QED
      BY <3>1
  <2>2. CASE l # 0
    <3>1. batch' = E /\ Newest(E) < beyond
      BY <1>5, <1>8, <2>2 DEF Accumulate
    <3> QED
      BY <1>2, <1>3, <3>1
  <2> QED
    BY <2>1, <2>2
<1>14. ASSUME NEW j \in 1 .. Len(arrivals')
       PROVE  \/ arrivals'[j].event.t < beyond
              \/ OnEdge(o, arrivals'[j])
  <2>1. CASE j \in 1 .. Len(arrivals)
    <3>1. arrivals[j].event.t < end \/ OnEdge(o, arrivals[j])
      BY <1>4, <1>6, <1>9, <2>1 DEF ReachInv
    <3>2. arrivals[j].event.t \in Int
      BY <2>1, ArrivalsAre
    <3> QED
      BY <1>8, <1>10, <2>1, <3>1, <3>2
  <2>2. ASSUME NEW i \in 1 .. Len(E), j = Len(arrivals) + i
        PROVE  \/ arrivals'[j].event.t < beyond
               \/ OnEdge(o, arrivals'[j])
    <3>1. /\ arrivals'[j].event = E[i]
          /\ arrivals'[j].closed = k
          /\ arrivals'[j].newest = Newest(E)
      BY <1>4, <1>10, <2>2
    <3>2. CASE E[i].t < beyond
      BY <3>1, <3>2
    <3>3. CASE ~ (E[i].t < beyond)
      <4>1. E[i].t = end /\ Newest(E) = E[i].t
        BY <1>2, <1>3, <1>8, <3>3
      <4> QED
        BY <1>6, <3>1, <4>1 DEF OnEdge
    <3> QED
      BY <3>2, <3>3
  <2> QED
    BY <1>12, <2>1, <2>2
<1>15. ReachInv'
  BY <1>1, <1>4, <1>7, <1>9, <1>13, <1>14 DEF ReachInv
<1>16. ASSUME k + l > 0
       PROVE  \E j \in 1 .. Len(arrivals') :
                arrivals'[j].event.t >= Start(o, k + l - 1 + NumBuff)
  <2>1. CASE l = 0
    <3>1. k + 0 > 0 /\ k + 0 - 1 + NumBuff = k + l - 1 + NumBuff
      BY <1>16, <2>1
    <3>2. PICK j \in 1 .. Len(arrivals) :
            arrivals[j].event.t >= Start(o, k + 0 - 1 + NumBuff)
      BY <1>1, <1>4, <3>1 DEF StaleInv
    <3>3. j \in 1 .. Len(arrivals') /\ arrivals'[j] = arrivals[j]
      BY <1>2, <1>10, <1>11
    <3> QED
      BY <3>1, <3>2, <3>3
  <2>2. CASE l # 0
    <3>1. Newest(E) >= Start(o, k + l - 1 + NumBuff)
      BY <1>4, <1>5, <2>2, AccumulateReach
    <3>2. PICK m \in 1 .. Len(E) : E[m].t = Newest(E)
      BY BatchIs
    <3>3. PICK j : j = Len(arrivals) + m
      OBVIOUS
    <3>4. j \in 1 .. Len(arrivals')
      BY <1>2, <1>10, <1>11, <3>3
    <3>5. arrivals'[j].event = E[m]
      BY <1>10, <3>3
    <3> QED
      BY <3>1, <3>2, <3>4, <3>5
  <2> QED
    BY <2>1, <2>2
<1>17. ASSUME NEW j \in 1 .. Len(arrivals'), arrivals'[j].closed > 0
       PROVE  \E i \in 1 .. j - 1 :
                arrivals'[i].event.t
                  >= Start(o, arrivals'[j].closed - 1 + NumBuff)
  <2>1. CASE j \in 1 .. Len(arrivals)
    <3>1. PICK i \in 1 .. j - 1 :
            arrivals[i].event.t >= Start(o, arrivals[j].closed - 1 + NumBuff)
      BY <1>4, <1>10, <1>17, <2>1 DEF StaleInv
    <3>2. i \in 1 .. Len(arrivals)
      BY <1>11, <2>1
    <3> QED
      BY <1>10, <2>1, <3>1, <3>2
  <2>2. ASSUME NEW i \in 1 .. Len(E), j = Len(arrivals) + i
        PROVE  \E h \in 1 .. j - 1 :
                 arrivals'[h].event.t
                   >= Start(o, arrivals'[j].closed - 1 + NumBuff)
    <3>1. arrivals'[j].closed = k /\ k > 0
      BY <1>4, <1>10, <1>17, <2>2
    <3>2. /\ Len(posted) + left > 0
          /\ Len(posted) + left - 1 + NumBuff = k - 1 + NumBuff
      BY <1>1, <1>4, <3>1
    <3>3. PICK h \in 1 .. Len(arrivals) :
            arrivals[h].event.t >= Start(o, k - 1 + NumBuff)
      BY <1>1, <1>4, <3>2 DEF StaleInv
    <3>4. h \in 1 .. j - 1 /\ arrivals'[h] = arrivals[h]
      BY <1>10, <1>11, <2>2
    <3> QED
      BY <3>1, <3>3, <3>4
  <2> QED
    BY <1>12, <2>1, <2>2
<1>18. StaleInv'
  BY <1>1, <1>4, <1>5, <1>16, <1>17 DEF StaleInv
<1> QED
  BY <1>15, <1>18

\* One pass of the second loop: the window on the bubble becomes a packet, and
\* its buffer takes what the call has for the window beyond the ring.
LEMMA WriteBubbleContent ==
  ASSUME ContentInv, RingInv, WriteBubble
  PROVE  ContentInv'
<1> USE DEF ContentInv
<1>1. PICK k \in Nat, o \in Int, p \in Slots, q \in Slots :
        /\ k = Len(posted) /\ o = origin /\ p = Bubble /\ q = NextSlot(p)
  BY ParametersAre, RingWindows, PlacesMove
<1>2. /\ left > 0 /\ left' = left - 1
      /\ posted' = Append(posted, buff[p].data)
      /\ buff' = Advance(p, batch)
      /\ batch' = IF left = 1 THEN <<>> ELSE batch
      /\ phase' = IF left = 1 /\ phase = "flushing" THEN "stopped" ELSE phase
      /\ UNCHANGED <<origin, arrivals>>
  BY <1>1 DEF WriteBubble
<1>3. /\ left \in Nat /\ NumBuff \in Nat \ {0} /\ AccumTime \in Nat \ {0}
      /\ posted \in Seq(Seq(Event)) /\ batch \in Seq(Event)
      /\ phase \in {"stopped", "running", "flushing"}
  BY AccumulatorAssumption DEF TypeInv
<1>4. \A i \in Slots : /\ buff[i] = [f \in Fields |-> buff[i][f]]
                      /\ buff[i].data \in Seq(Event)
  BY DEF RingInv, Records, TypeInv
<1>5. /\ posted' \in Seq(Seq(Event))
      /\ Len(posted') = k + 1
      /\ posted'[k + 1] = buff[p].data
      /\ \A w \in 0 .. k - 1 : posted'[w + 1] = posted[w + 1]
  <2>1. buff[p].data \in Seq(Event)
    BY <1>4
  <2>2. PICK d \in Seq(Event) : d = buff[p].data
    BY <2>1
  <2>3. posted' = Append(posted, d)
    BY <1>2, <2>2
  <2>4. \A w \in 0 .. k - 1 : w + 1 \in 1 .. Len(posted)
    BY <1>1
  <2> QED
    BY <1>1, <1>3, <2>2, <2>3, <2>4
<1>6. PICK new : new = k + NumBuff
  OBVIOUS
<1>7. buff'[p].data = ElementsAt(batch, InsideOf(o, batch, new))
  <2>1. /\ buff[p].t1 = Start(o, k) /\ buff[p].t2 = Start(o, k + 1)
    <3>1. PlaceFrom(p, p) = 0 /\ k + 0 = k
      BY <1>1, PlacesMove
    <3> QED
      BY <1>1, <3>1, RingWindows
  <2>2. /\ Start(o, k + NumBuff) = Start(o, k) + AccumTime * NumBuff
        /\ Start(o, k + 1 + NumBuff) = Start(o, k + 1) + AccumTime * NumBuff
    <3>1. k \in Int /\ k + 1 \in Int /\ NumBuff \in Int
      BY <1>3
    <3>2. /\ Start(o, k + NumBuff) = Start(o, k) + NumBuff * AccumTime
          /\ Start(o, k + 1 + NumBuff) = Start(o, k + 1) + NumBuff * AccumTime
      BY <3>1, StartsApart, Zenon
    <3>3. NumBuff * AccumTime = AccumTime * NumBuff
      BY <1>3
    <3> QED
      BY <3>2, <3>3
  <2>3. k + 1 + NumBuff = new + 1
    BY <1>3, <1>6
  <2> DEFINE b == [ResetBuffer(buff[p], buff[p].t1 + AccumTime * NumBuff,
                                        buff[p].t2 + AccumTime * NumBuff)
                     EXCEPT !.bubble = (NextSlot(p) = p), !.leading = TRUE]
  <2>4. buff'[p] = BufferData(b, batch)
    BY <1>2 DEF Advance
  <2>5. /\ b = [f \in Fields |-> b[f]]
        /\ b.t1 = buff[p].t1 + AccumTime * NumBuff
        /\ b.t2 = buff[p].t2 + AccumTime * NumBuff
        /\ b.data = <<>>
    BY <1>4 DEF ResetBuffer, Fields
  <2> HIDE DEF b
  <2>6. /\ b = [f \in Fields |-> b[f]]
        /\ b.t1 = Start(o, new) /\ b.t2 = Start(o, new + 1)
    BY <1>6, <2>1, <2>2, <2>3, <2>5
  <2>7. BufferData(b, batch).data
          = b.data \o ElementsAt(batch, InsideOf(o, batch, new))
    BY <2>6 DEF BufferData, InsideOf, Fields
  <2>8. PICK s \in Seq(Event) : s = ElementsAt(batch, InsideOf(o, batch, new))
    BY <1>3, ElementsAtType
  <2>9. <<>> \o s = s
    OBVIOUS
  <2> QED
    BY <2>4, <2>5, <2>7, <2>8, <2>9
<1>8. ASSUME NEW i \in Slots, i # p
      PROVE  buff'[i].data = buff[i].data
  <2>1. buff'[i] = [buff[i] EXCEPT !.bubble = @ \/ i = NextSlot(p),
                                   !.leading = FALSE]
    BY <1>2, <1>8 DEF Advance
  <2> QED
    BY <1>4, <2>1 DEF Fields
<1>9. Bubble' = q
  <2>1. PICK bs : bs = buff'
    OBVIOUS
  <2>2. Tiled(buff, p, k, o)
    BY <1>1, RingWindows
  <2>3. ASSUME NEW i \in Slots
        PROVE  bs[i].bubble = (i = q)
    <3>1. CASE i # p
      <4>1. bs[i] = [buff[i] EXCEPT !.bubble = @ \/ i = NextSlot(p),
                                    !.leading = FALSE]
        BY <1>2, <2>1, <3>1 DEF Advance
      <4>2. bs[i].bubble = (buff[i].bubble \/ i = NextSlot(p))
        BY <1>4, <4>1 DEF Fields
      <4> QED
        BY <1>1, <2>2, <3>1, <4>2 DEF Tiled
    <3>2. CASE i = p
      <4> DEFINE b == [ResetBuffer(buff[p], buff[p].t1 + AccumTime * NumBuff,
                                            buff[p].t2 + AccumTime * NumBuff)
                         EXCEPT !.bubble = (NextSlot(p) = p), !.leading = TRUE]
      <4>1. bs[p] = BufferData(b, batch)
        BY <1>2, <2>1 DEF Advance
      <4>2. b = [f \in Fields |-> b[f]] /\ b.bubble = (NextSlot(p) = p)
        BY <1>4 DEF ResetBuffer, Fields
      <4> HIDE DEF b
      <4>3. bs[p].bubble = b.bubble
        BY <4>1, <4>2, BufferDataFrame
      <4> QED
        BY <1>1, <3>2, <4>2, <4>3
    <3> QED
      BY <3>1, <3>2
  <2>4. Min({i \in Slots : bs[i].bubble}) = q
    BY <2>3, BubbleNames
  <2> QED
    BY <2>1, <2>4 DEF Bubble
<1>10. ASSUME NEW i \in Slots
       PROVE  buff'[i].data \in Seq(Event)
  <2>1. CASE i = p
    BY <1>3, <1>7, <2>1, ElementsAtType
  <2>2. CASE i # p
    BY <1>4, <1>8, <2>2
  <2> QED
    BY <2>1, <2>2
<1>11. TypeInv'
  <2>1. left' \in Nat /\ batch' \in Seq(Event)
    BY <1>2, <1>3
  <2>2. phase' \in {"stopped", "running", "flushing"}
    BY <1>2, <1>3
  <2> QED
    BY <1>2, <1>5, <1>10, <2>1, <2>2 DEF TypeInv
<1>12. CallInv'
  BY <1>2, <1>3 DEF CallInv
<1>13. Reach' = Reach /\ Reach \in Int
  BY <1>1, <1>2, <1>3, <1>5 DEF Reach, CallInv
<1>14. ASSUME NEW w \in 0 .. Len(posted') - 1
       PROVE  posted'[w + 1] = AcceptedOf(o, arrivals, w)
  <2>1. CASE w = k
    <3>1. PlaceFrom(p, p) = 0 /\ k + 0 = k
      BY <1>1, PlacesMove
    <3>2. buff[p].data = AcceptedOf(o, arrivals, k + 0)
      BY <1>1, <3>1 DEF PacketsInv
    <3> QED
      BY <1>5, <2>1, <3>1, <3>2
  <2>2. CASE w # k
    <3>1. w \in 0 .. k - 1
      BY <1>1, <1>5, <2>2
    <3>2. posted[w + 1] = AcceptedOf(o, arrivals, w)
      BY <1>1, <3>1 DEF PacketsInv
    <3> QED
      BY <1>5, <3>1, <3>2
  <2> QED
    BY <2>1, <2>2
<1>15. ASSUME NEW i \in Slots
       PROVE  buff'[i].data
                = AcceptedOf(o, arrivals, Len(posted') + PlaceFrom(q, i))
  <2>1. CASE i = p
    <3>1. PlaceFrom(q, p) = NumBuff - 1
      BY <1>1, PlacesMove
    <3>2. Len(posted') + PlaceFrom(q, p) = new
      BY <1>3, <1>5, <1>6, <3>1
    <3>3. new \in Nat /\ new >= k + NumBuff
      BY <1>3, <1>6
    <3>4. AcceptedOf(o, arrivals, new)
            = ElementsAt(batch, InsideOf(o, batch, new))
      BY <1>1, <3>3 DEF PacketsInv
    <3> QED
      BY <1>7, <2>1, <3>2, <3>4
  <2>2. CASE i # p
    <3>1. /\ PlaceFrom(q, i) = PlaceFrom(p, i) - 1
          /\ PlaceFrom(p, i) \in 1 .. NumBuff - 1
      BY <1>1, <2>2, PlacesMove
    <3>2. Len(posted') + PlaceFrom(q, i) = k + PlaceFrom(p, i)
      BY <1>3, <1>5, <3>1
    <3>3. buff[i].data = AcceptedOf(o, arrivals, k + PlaceFrom(p, i))
      BY <1>1 DEF PacketsInv
    <3> QED
      BY <1>8, <2>2, <3>2, <3>3
  <2> QED
    BY <2>1, <2>2
<1>16. ASSUME NEW w \in Nat, w >= Len(posted') + NumBuff
       PROVE  AcceptedOf(o, arrivals, w)
                = ElementsAt(batch', InsideOf(o, batch', w))
  <2>1. w >= k + NumBuff
    BY <1>3, <1>5, <1>16
  <2>2. AcceptedOf(o, arrivals, w) = ElementsAt(batch, InsideOf(o, batch, w))
    BY <1>1, <2>1 DEF PacketsInv
  <2>3. CASE left # 1
    BY <1>2, <2>2, <2>3
  <2>4. CASE left = 1
    <3>1. batch' = <<>>
      BY <1>2, <2>4
    <3>2. ElementsAt(batch, InsideOf(o, batch, w)) = <<>>
      <4>1. CASE phase # "running"
        <5>1. batch = <<>>
          BY <4>1 DEF CallInv
        <5> QED
          BY <5>1, ElementsAtEmpty
      <4>2. CASE phase = "running"
        <5>1. Reach <= w
          BY <1>1, <1>3, <1>5, <1>16, <2>4, <4>2 DEF Reach
        <5>2. w \in Int /\ Reach \in Int
          BY <1>13
        <5>3. /\ Start(o, Reach) <= Start(o, w)
              /\ Start(o, Reach) \in Int /\ Start(o, w) \in Int
          BY <5>1, <5>2, Starts, Zenon
        <5>4. \A i \in 1 .. Len(batch) : batch[i].t < Start(o, Reach)
          BY <1>1 DEF ReachInv
        <5>5. \A i \in 1 .. Len(batch) : batch[i].t \in Int
          BY <1>3, EventTimes
        <5>6. PICK Q : Q = InsideOf(o, batch, w)
          OBVIOUS
        <5>7. \A i \in Q : Start(o, w) <= batch[i].t
          BY <5>6 DEF InsideOf
        <5>8. Len(batch) \in Nat /\ \A i \in 1 .. Len(batch) : i \notin Q
          BY <1>3, <5>3, <5>4, <5>5, <5>7
        <5>9. ElementsAt(batch, Q) = <<>>
          BY <5>8, ElementsAtNone
        <5> QED
          BY <5>6, <5>9
      <4> QED
        BY <4>1, <4>2
    <3> QED
      BY <2>2, <3>1, <3>2, ElementsAtEmpty
  <2> QED
    BY <2>3, <2>4
<1>17. PacketsInv'
  BY <1>1, <1>2, <1>9, <1>14, <1>15, <1>16 DEF PacketsInv
<1>18. ReachInv'
  <2>1. \A i \in 1 .. Len(batch') : batch'[i].t < Start(o, Reach)
    BY <1>1, <1>2 DEF ReachInv
  <2> QED
    BY <1>1, <1>2, <1>13, <2>1 DEF ReachInv
<1>19. StaleInv'
  <2>1. phase' = "running" => phase = "running"
    BY <1>2
  <2>2. PICK x \in Int : x = Len(posted) + left
    BY <1>1, <1>3
  <2>3. Len(posted') + left' = x
    <3>1. left' = left - 1
      BY <1>2
    <3>2. Len(posted') = Len(posted) + 1 /\ Len(posted) \in Nat
      BY <1>1, <1>5
    <3> QED
      BY <1>3, <2>2, <3>1, <3>2
  <2>4. phase = "running" /\ x > 0 =>
          \E j \in 1 .. Len(arrivals) :
            arrivals[j].event.t >= Start(origin, x - 1 + NumBuff)
    <3>1. phase = "running" /\ Len(posted) + left > 0 =>
            \E j \in 1 .. Len(arrivals) :
              arrivals[j].event.t
                >= Start(origin, Len(posted) + left - 1 + NumBuff)
      BY DEF StaleInv
    <3>2. x - 1 + NumBuff = Len(posted) + left - 1 + NumBuff
      BY <1>1, <1>3, <2>2
    <3> QED
      BY <2>2, <3>1, <3>2
  <2>5. \A j \in 1 .. Len(arrivals) :
          arrivals[j].closed > 0 =>
            \E i \in 1 .. j - 1 :
              arrivals[i].event.t
                >= Start(origin, arrivals[j].closed - 1 + NumBuff)
    BY DEF StaleInv
  <2>6. phase' = "running" /\ Len(posted') + left' > 0 =>
          \E j \in 1 .. Len(arrivals') :
            arrivals'[j].event.t
              >= Start(origin', Len(posted') + left' - 1 + NumBuff)
    <3>1. Len(posted') + left' - 1 + NumBuff = x - 1 + NumBuff
      BY <1>2, <1>3, <1>5, <2>3
    <3> QED
      BY <1>2, <2>1, <2>3, <2>4, <3>1
  <2> QED
    BY <1>2, <2>5, <2>6 DEF StaleInv
<1> QED
  BY <1>11, <1>12, <1>17, <1>18, <1>19

\* At the start of an acquisition nothing has arrived.
LEMMA NothingArrived ==
  ASSUME NEW o, NEW arr, arr = <<>>, NEW w
  PROVE  AcceptedOf(o, arr, w) = <<>>
<1>1. EventsOf(arr) = <<>>
  BY DEF EventsOf
<1> QED
  BY <1>1, ElementsAtEmpty DEF AcceptedOf

LEMMA RingStartsEmpty ==
  ASSUME NEW bs, NEW o, bs = ResetAccumBuffs(o)
  PROVE  \A i \in Slots : bs[i].data = <<>>
  BY DEF ResetAccumBuffs

LEMMA InitContent ==
  ASSUME Init
  PROVE  ContentInv
<1>1. /\ phase = "running" /\ origin \in Origins /\ batch = <<>> /\ left = 0
      /\ posted = <<>> /\ arrivals = <<>>
      /\ \A i \in Slots : buff[i].data = <<>>
  BY RingStartsEmpty DEF Init
<1>2. Len(posted) = 0 /\ Len(arrivals) = 0 /\ Len(batch) = 0
  BY <1>1
<1>3. \A w : AcceptedOf(origin, arrivals, w) = <<>>
  BY <1>1, NothingArrived
<1>4. \A w : ElementsAt(batch, InsideOf(origin, batch, w)) = <<>>
  BY <1>1, ElementsAtEmpty
<1>5. TypeInv
  <2>1. /\ <<>> \in Seq(Event) /\ <<>> \in Seq(Seq(Event))
        /\ <<>> \in Seq(Arrival) /\ 0 \in Nat
    OBVIOUS
  <2> QED
    BY <1>1, <2>1, Zenon DEF TypeInv
<1>6. CallInv
  BY <1>1 DEF CallInv
<1>7. PacketsInv
  BY <1>1, <1>2, <1>3, <1>4 DEF PacketsInv
<1>8. ReachInv
  BY <1>1, <1>2 DEF ReachInv
<1>9. StaleInv
  BY <1>1, <1>2 DEF StaleInv
<1> QED
  BY <1>5, <1>6, <1>7, <1>8, <1>9 DEF ContentInv

LEMMA InitializeTimeContent ==
  ASSUME ContentInv, NEW ts0 \in Origins, InitializeTime(ts0)
  PROVE  ContentInv'
<1>1. /\ phase = "stopped" /\ phase' = "running" /\ origin' \in Origins
      /\ batch' = batch /\ left' = left
      /\ posted' = <<>> /\ arrivals' = <<>>
      /\ \A i \in Slots : buff'[i].data = <<>>
  BY RingStartsEmpty DEF InitializeTime
<1>2. batch' = <<>> /\ left' = 0
  BY <1>1 DEF ContentInv, CallInv
<1>3. Len(posted') = 0 /\ Len(arrivals') = 0 /\ Len(batch') = 0
  BY <1>1, <1>2
<1>4. \A w : AcceptedOf(origin', arrivals', w) = <<>>
  BY <1>1, NothingArrived
<1>5. \A w : ElementsAt(batch', InsideOf(origin', batch', w)) = <<>>
  BY <1>2, ElementsAtEmpty
<1>6. TypeInv'
  <2>1. /\ <<>> \in Seq(Event) /\ <<>> \in Seq(Seq(Event))
        /\ <<>> \in Seq(Arrival) /\ 0 \in Nat
    OBVIOUS
  <2> QED
    BY <1>1, <1>2, <2>1, Zenon DEF TypeInv
<1>7. CallInv'
  BY <1>1, <1>2 DEF CallInv
<1>8. PacketsInv'
  BY <1>1, <1>3, <1>4, <1>5 DEF PacketsInv
<1>9. ReachInv'
  BY <1>1, <1>3 DEF ReachInv
<1>10. StaleInv'
  BY <1>1, <1>2, <1>3 DEF StaleInv
<1> QED
  BY <1>6, <1>7, <1>8, <1>9, <1>10 DEF ContentInv

LEMMA FlushContent ==
  ASSUME ContentInv, FlushBuffers
  PROVE  ContentInv'
<1>1. /\ phase = "running" /\ left = 0 /\ phase' = "flushing"
      /\ left' = NumBuff
      /\ UNCHANGED <<buff, batch, posted, origin, arrivals>>
  BY DEF FlushBuffers
<1>2. NumBuff \in Nat \ {0}
  BY AccumulatorAssumption
<1>3. Bubble' = Bubble
  BY <1>1 DEF Bubble
<1>4. Len(posted) \in Nat
  BY DEF ContentInv, TypeInv
<1>5. Reach' = Reach
  BY <1>1, <1>2, <1>4 DEF Reach
<1>6. TypeInv'
  BY <1>1, <1>2 DEF ContentInv, TypeInv
<1>7. CallInv'
  BY <1>1, <1>2 DEF ContentInv, CallInv
<1>8. PacketsInv'
  BY <1>1, <1>3 DEF ContentInv, PacketsInv
<1>9. ReachInv'
  BY <1>1, <1>5 DEF ContentInv, ReachInv
<1>10. StaleInv'
  BY <1>1 DEF ContentInv, StaleInv
<1> QED
  BY <1>6, <1>7, <1>8, <1>9, <1>10 DEF ContentInv

LEMMA NextContent == ContentInv /\ RingInv /\ [Next]_vars => ContentInv'
<1> SUFFICES ASSUME ContentInv, RingInv, [Next]_vars PROVE ContentInv'
  OBVIOUS
<1>1. CASE \E ts0 \in Origins : InitializeTime(ts0)
  BY <1>1, InitializeTimeContent
<1>2. CASE \E k \in 1 .. MaxBatch :
             /\ Len(arrivals) + k <= MaxEvents
             /\ \E times \in [1 .. k -> Times] : Accumulate(Batch(times))
  <2>0. PICK n \in 1 .. MaxBatch :
          \E times \in [1 .. n -> Times] : Accumulate(Batch(times))
    BY <1>2
  <2>1. PICK times \in [1 .. n -> Times] : Accumulate(Batch(times))
    BY <2>0
  <2>2. PICK E : E = Batch(times)
    OBVIOUS
  <2>3. Accumulate(E)
    BY <2>1, <2>2
  <2>4. TypeInv' /\ CallInv'
    BY <2>2, <2>3, AccumulateTypes DEF ContentInv
  <2>5. PacketsInv'
    BY <2>2, <2>3, AccumulatePackets DEF ContentInv
  <2>6. ReachInv' /\ StaleInv'
    BY <2>2, <2>3, AccumulateReaches DEF ContentInv
  <2> QED
    BY <2>4, <2>5, <2>6 DEF ContentInv
<1>3. CASE WriteBubble
  BY <1>3, WriteBubbleContent
<1>4. CASE FlushBuffers
  BY <1>4, FlushContent
<1>5. CASE UNCHANGED vars
  <2>1. Bubble' = Bubble /\ Reach' = Reach
    BY <1>5 DEF vars, Bubble, Reach
  <2> QED
    BY <1>5, <2>1 DEF vars, ContentInv, TypeInv, CallInv, PacketsInv, ReachInv,
                      StaleInv
<1> QED
  BY <1>1, <1>2, <1>3, <1>4, <1>5 DEF Next

LEMMA ContentInvariance == Spec => [](ContentInv /\ RingInv)
<1>1. Init => ContentInv /\ RingInv
  BY InitContent, InitRing
<1>2. (ContentInv /\ RingInv) /\ [Next]_vars => (ContentInv /\ RingInv)'
  BY NextContent, NextRing
<1> QED
  BY <1>1, <1>2, PTL DEF Spec

LEMMA ContentTypes == ContentInv /\ RingInv => TypeOK
<1> SUFFICES ASSUME ContentInv, RingInv PROVE TypeOK
  OBVIOUS
<1>1. TypeInv
  BY DEF ContentInv
<1>2. ASSUME NEW i \in Slots
      PROVE  buff[i] \in AccumBuff
  <2>1. Tiled(buff, Bubble, Len(posted), origin) /\ Bubble \in Slots
    BY <1>1, RingWindows
  <2>2. /\ buff[i].t1 = Start(origin, Len(posted) + PlaceFrom(Bubble, i))
        /\ PlaceFrom(Bubble, i) \in 0 .. NumBuff - 1
    BY <1>1, RingWindows
  <2>3. PICK w : w = Len(posted) + PlaceFrom(Bubble, i)
    OBVIOUS
  <2>4. w \in Int /\ origin \in Int
    BY <1>1, <2>2, <2>3, ParametersAre
  <2>5. buff[i].t1 \in Int
    BY <2>2, <2>3, <2>4, Starts
  <2>6. buff[i].t2 = buff[i].t1 + AccumTime /\ AccumTime \in Int
    BY <1>1, <2>1, ParametersAre DEF Tiled
  <2>7. buff[i].bubble \in BOOLEAN /\ buff[i].leading \in BOOLEAN
    BY <2>1 DEF Tiled
  <2>8. buff[i].data \in Seq(Event)
    BY <1>1 DEF TypeInv
  <2>9. buff[i] = [f \in Fields |-> buff[i][f]]
    BY DEF RingInv, Records
  <2>10. buff[i].t2 \in Int
    BY <2>5, <2>6
  <2> QED
    BY <2>5, <2>7, <2>8, <2>9, <2>10 DEF AccumBuff, Fields
<1>3. buff \in [Slots -> AccumBuff]
  BY <1>2 DEF RingInv, Records
<1> QED
  BY <1>1, <1>3 DEF TypeInv, TypeOK

\* The state of an accumulator keeps its types.
THEOREM TypeCorrect == Spec => []TypeOK
  BY ContentInvariance, ContentTypes, PTL

LEMMA ContentPackets == ContentInv /\ RingInv => PacketsAreWindows
<1> SUFFICES ASSUME ContentInv, RingInv PROVE PacketsAreWindows
  OBVIOUS
<1>1. \A w : Accepted(w) = AcceptedOf(origin, arrivals, w)
  BY AcceptedIs
<1>2. \A i \in Slots : Place(i) = PlaceFrom(Bubble, i)
  BY DEF Place, PlaceFrom
<1> QED
  BY <1>1, <1>2 DEF ContentInv, PacketsInv, PacketsAreWindows

\* Whatever timestamps arrive, in whatever calls, the packets posted and the
\* buffers of the ring are the events of their windows, each once and in order
\* of arrival, but for those that come late or on the edge of the ring
\* (GRIDAQAccumulator.h:82-224, GRIAccumBuff.h).
THEOREM PacketsHold == Spec => []PacketsAreWindows
  BY ContentInvariance, ContentPackets, PTL

LEMMA ContentStale == ContentInv => OnlyStaleAreLate
<1> SUFFICES ASSUME ContentInv,
                    NEW j \in DOMAIN arrivals,
                    Late(arrivals[j]), arrivals[j].event.t >= origin
             PROVE  \E i \in 1 .. j - 1, w \in 0 .. arrivals[j].closed - 1 :
                      /\ InWindow(arrivals[j].event.t, w)
                      /\ arrivals[i].event.t >= WindowStart(w + NumBuff)
  BY DEF OnlyStaleAreLate
<1>1. TypeInv /\ StaleInv
  BY DEF ContentInv
<1>2. /\ NumBuff \in Nat \ {0} /\ AccumTime \in Nat \ {0} /\ origin \in Int
      /\ j \in 1 .. Len(arrivals) /\ Len(arrivals) \in Nat
  BY <1>1, ParametersAre, EventsAre
<1>3. PICK t \in Int, c \in Nat, o \in Int :
        t = arrivals[j].event.t /\ c = arrivals[j].closed /\ o = origin
  BY <1>1, <1>2, ArrivalsAre
<1>4. t < Start(o, c) /\ t >= o
  BY <1>3 DEF Late, WindowStart, Start
<1>5. PICK x \in Nat : x = t - o
  BY <1>3, <1>4
<1>6. PICK w \in Nat : w = x \div AccumTime
  BY <1>2, <1>5, DivBounds
<1>7. PICK a \in Int, b \in Int : a = w * AccumTime /\ b = (w + 1) * AccumTime
  BY <1>2
<1>8. a <= x /\ x < b
  BY <1>2, <1>6, <1>7, DivBounds
<1>9. Start(o, w) <= t /\ t < Start(o, w + 1)
  BY <1>3, <1>5, <1>7, <1>8 DEF Start
<1>10. w < c
  <2>1. ASSUME c <= w PROVE FALSE
    <3>1. c \in Int /\ w \in Int
      OBVIOUS
    <3>2. /\ Start(o, c) <= Start(o, w)
          /\ Start(o, c) \in Int /\ Start(o, w) \in Int
      BY <2>1, <3>1, Starts, Zenon
    <3> QED
      BY <1>4, <1>9, <3>2
  <2> QED
    BY <2>1
<1>11. PICK i \in 1 .. j - 1 :
         arrivals[i].event.t >= Start(o, c - 1 + NumBuff)
  <2>1. arrivals[j].closed > 0
    BY <1>3, <1>10
  <2> QED
    BY <1>1, <1>2, <1>3, <2>1 DEF StaleInv
<1>12. arrivals[i].event.t >= Start(o, w + NumBuff)
  <2>1. /\ w + NumBuff \in Int /\ c - 1 + NumBuff \in Int
        /\ w + NumBuff <= c - 1 + NumBuff
    BY <1>2, <1>10
  <2>2. /\ Start(o, w + NumBuff) <= Start(o, c - 1 + NumBuff)
        /\ Start(o, w + NumBuff) \in Int /\ Start(o, c - 1 + NumBuff) \in Int
    BY <2>1, Starts, Zenon
  <2>3. i \in 1 .. Len(arrivals)
    BY <1>2
  <2>4. arrivals[i].event.t \in Int
    BY <1>1, <2>3, ArrivalsAre
  <2> QED
    BY <1>11, <2>2, <2>4
<1>13. w \in 0 .. arrivals[j].closed - 1
  BY <1>3, <1>10
<1>14. InWindow(arrivals[j].event.t, w)
  BY <1>3, <1>9 DEF InWindow, WindowStart, Start
<1>15. arrivals[i].event.t >= WindowStart(w + NumBuff)
  BY <1>3, <1>12 DEF WindowStart, Start
<1> QED
  BY <1>13, <1>14, <1>15

\* An event is dropped as late only when one that is NumBuff windows newer
\* arrived before it (GRIDAQAccumulator.h:82-136).
THEOREM StaleOnly == Spec => []OnlyStaleAreLate
  BY ContentInvariance, ContentStale, PTL

LEMMA ContentFlushed == ContentInv /\ RingInv => FlushPostsAll
<1> SUFFICES ASSUME ContentInv, RingInv, phase = "stopped"
             PROVE  /\ \A i \in Slots : buff[i].data = <<>>
                    /\ \A j \in DOMAIN arrivals :
                         \/ arrivals[j].event.t < WindowStart(Len(posted))
                         \/ OnTheEdge(arrivals[j])
  BY DEF FlushPostsAll
<1>1. TypeInv /\ CallInv /\ PacketsInv /\ ReachInv
  BY DEF ContentInv
<1>2. PICK k \in Nat, o \in Int : k = Len(posted) /\ o = origin
  BY <1>1, ParametersAre
<1>3. Reach = k
  BY <1>1, <1>2 DEF Reach, CallInv
<1>4. DOMAIN arrivals = 1 .. Len(arrivals) /\ Len(arrivals) \in Nat
  BY <1>1, EventsAre
<1>5. \A j \in 1 .. Len(arrivals) : \/ arrivals[j].event.t < Start(o, k)
                                   \/ OnEdge(o, arrivals[j])
  BY <1>1, <1>2, <1>3 DEF ReachInv
<1>6. ASSUME NEW i \in Slots
      PROVE  buff[i].data = <<>>
  <2>1. PICK w : w = k + PlaceFrom(Bubble, i)
    OBVIOUS
  <2>2. PlaceFrom(Bubble, i) \in 0 .. NumBuff - 1
    BY <1>1, RingWindows
  <2>3. w \in Int /\ k <= w /\ k \in Int
    BY <1>1, <2>1, <2>2, ParametersAre
  <2>4. /\ Start(o, k) <= Start(o, w)
        /\ Start(o, k) \in Int /\ Start(o, w) \in Int
    BY <2>3, Starts, Zenon
  <2>5. \A j \in 1 .. Len(arrivals) : arrivals[j].event.t \in Int
    BY <1>1, ArrivalsAre
  <2>6. \A j \in 1 .. Len(arrivals) : j \notin PlacesOf(o, arrivals, w)
    BY <1>5, <2>4, <2>5 DEF PlacesOf
  <2>7. PICK ev, Q : ev = EventsOf(arrivals) /\ Q = PlacesOf(o, arrivals, w)
    OBVIOUS
  <2>8. Len(ev) \in Nat /\ \A j \in 1 .. Len(ev) : j \notin Q
    BY <1>1, <2>6, <2>7, EventsAre
  <2>9. ElementsAt(ev, Q) = <<>>
    BY <2>8, ElementsAtNone
  <2>10. buff[i].data = AcceptedOf(o, arrivals, w)
    BY <1>1, <1>2, <2>1 DEF PacketsInv
  <2> QED
    BY <2>7, <2>9, <2>10 DEF AcceptedOf
<1>7. \A j \in DOMAIN arrivals : \/ arrivals[j].event.t < WindowStart(Len(posted))
                                \/ OnTheEdge(arrivals[j])
  BY <1>2, <1>4, <1>5 DEF OnEdge, OnTheEdge, WindowStart, Start
<1> QED
  BY <1>6, <1>7

\* A flush posts everything: when an acquisition has stopped, the ring is empty
\* and no event that was accepted is beyond the last packet
\* (GRIDAQAccumulator.h:197-224).
THEOREM FlushLosesNothing == Spec => []FlushPostsAll
  BY ContentInvariance, ContentFlushed, PTL
=============================================================================
